---- MODULE Spec2Model ----
(***************************************************************************)
(* Model of the Flask application of src/app.py: session verification,     *)
(* Pro entitlement (local registration set + provider custom claims),      *)
(* the payment flow, the Stripe webhook, the lesson route's Pro gate and   *)
(* the per-user progress store.                                            *)
(*                                                                         *)
(* Python values are modelled as follows.  None is the record None.  A     *)
(* dict is a set of <<key, value>> pairs.  A str used as a slug is a       *)
(* sequence of character codes (32 is the space), so that str.strip and    *)
(* sorted act on it as they do in Python.  A file is a record with an      *)
(* `exists` field.                                                         *)
(***************************************************************************)
EXTENDS Integers, Sequences, FiniteSets, TLC

VARIABLES
    PRO_USERS,      \* the in-memory set PRO_USERS of create_app
    proFile,        \* data/pro_users.json
    claims,         \* provider-side custom claims, per uid
    sessions,       \* session cookies issued by the identity provider
    checkouts,      \* checkout sessions held by the payment processor
    progress,       \* data/progress_<uid>.json, per uid
    LESSON_INDEX,   \* app.config['_LESSON_INDEX']
    content,        \* slugs of the lesson files under the content root
    files,          \* what each lesson file holds, by slug
    stale,          \* issued session cookies that expired or were revoked
    inflight,       \* requests between their file read and their file write
    resp            \* the last request, what it found, and the response to it

vars == <<PRO_USERS, proFile, claims, sessions, checkouts, progress,
          LESSON_INDEX, content, files, stale, inflight, resp>>

-----------------------------------------------------------------------------
\* Bounds of the model

MaxSessions == 2
MaxCheckouts == 1
MaxDone == 4
MaxTotal == 10

-----------------------------------------------------------------------------
\* Values

None == [none |-> TRUE]

Users == {"u1", "u2"}

SP == 32
\* the k-th one-letter slug: "a", "b", ...
SlugN(k) == <<96 + k>>
FirstSlugs(k) == {SlugN(i) : i \in 1..k}
SlugA == SlugN(1)
SlugB == SlugN(2)

\* raw slug strings a client may post
RawSlugs == {<< >>, <<SP>>, SlugA, <<SP, 97>>, <<97, SP>>, SlugB}

\* tags of the lesson documents that may be present under the content root
LessonTags == [s \in {SlugA, SlugB} |->
                 IF s = SlugA THEN <<"css", "pro">> ELSE <<"html">>]

\* the lesson files under the content root: a Pro lesson and a free one
ContentRoot == {SlugA, SlugB}

NoClaims == {}
ProClaims == {<<"pro", TRUE>>}
ClaimDicts == {NoClaims, ProClaims, {<<"pro", FALSE>>}}

NoCookie == [kind |-> "absent"]
BadCookie == [kind |-> "malformed"]
SessionCookies == [kind : {"session"}, uid : Users, customClaims : {NoClaims, ProClaims}]
AllCookies == {NoCookie, BadCookie} \cup SessionCookies

NoFile == [exists |-> FALSE]
\* a request without a JSON body
NoBody == [hasSlug |-> FALSE, slug |-> << >>, completed |-> "absent"]
NoResp == [route |-> "none", status |-> 0, body |-> "", cookie |-> NoCookie]

-----------------------------------------------------------------------------
\* Python helpers

Range(s) == {s[i] : i \in DOMAIN s}

\* dict.get(key, default)
DictGet(d, key, default) ==
    IF \E kv \in d : kv[1] = key
    THEN (CHOOSE kv \in d : kv[1] = key)[2]
    ELSE default

\* list(a_set): the elements in the iteration order of the set, which is
\* fixed for a set whose contents do not change
ListOfSet(S) == CHOOSE s \in [1..Cardinality(S) -> S] : Range(s) = S

\* str.strip()
RECURSIVE LStrip(_)
LStrip(s) == IF s = << >> THEN s
             ELSE IF Head(s) = SP THEN LStrip(Tail(s)) ELSE s

RECURSIVE RStrip(_)
RStrip(s) == IF s = << >> THEN s
             ELSE IF s[Len(s)] = SP THEN RStrip(SubSeq(s, 1, Len(s) - 1)) ELSE s

Strip(s) == RStrip(LStrip(s))

\* str < str
RECURSIVE StrLess(_, _)
StrLess(a, b) ==
    IF b = << >> THEN FALSE
    ELSE IF a = << >> THEN TRUE
    ELSE IF Head(a) # Head(b) THEN Head(a) < Head(b)
    ELSE StrLess(Tail(a), Tail(b))

\* sorted(a_set_of_str)
RECURSIVE Sorted(_)
Sorted(S) ==
    IF S = {} THEN << >>
    ELSE LET m == CHOOSE x \in S : \A y \in S \ {x} : StrLess(x, y)
         IN  <<m>> \o Sorted(S \ {m})

\* round(num / den) for den > 0: Python 3 rounds halves to the even integer
RoundHalfEven(num, den) ==
    LET q == num \div den
        r == num % den
    IN  IF 2 * r < den THEN q
        ELSE IF 2 * r > den THEN q + 1
        ELSE IF q % 2 = 0 THEN q ELSE q + 1

\* the percentage truncated instead of rounded
Percent_Truncated(n, total) == IF total = 0 THEN 0 ELSE (100 * n) \div total

\* int(round((len(completed) / total) * 100)) if total else 0
Percent(n, total) == IF total = 0 THEN 0 ELSE RoundHalfEven(100 * n, total)

-----------------------------------------------------------------------------
\* Pro registration store

_load_pro_users(file) ==
    IF file.exists THEN Range(file.pro_users) ELSE {}

_save_pro_users(pro_users) ==
    [exists |-> TRUE, pro_users |-> ListOfSet(pro_users)]

\* a registration that appends the uid to the stored list
register_pro_user_Append(uid) ==
    [set |-> PRO_USERS \cup {uid},
     file |-> [exists |-> TRUE,
               pro_users |-> Append(IF proFile.exists THEN proFile.pro_users
                                    ELSE << >>, uid)]]

\* the new values of PRO_USERS and of the file
register_pro_user(uid) ==
    LET added == PRO_USERS \cup {uid}
    IN  [set |-> added, file |-> _save_pro_users(added)]

is_registered_pro_user(uid) == uid \in PRO_USERS

-----------------------------------------------------------------------------
\* Session / entitlement layer

\* the cookies a request may carry: none, one the provider never issued, or
\* one of the issued ones
Cookies == {NoCookie, BadCookie} \cup sessions

\* the reasons for which the provider stops accepting a cookie it issued
StaleReasons == {"expired", "revoked"}

\* a provider that never looks at the age of a cookie or at revocations
ProviderAccepts_Unchecked(cookie) == cookie \in sessions

\* admin_auth.verify_session_cookie(session_cookie, check_revoked=True):
\* TRUE when it returns the decoded claims, FALSE when it raises
ProviderAccepts(cookie) ==
    /\ cookie \in sessions
    /\ \A why \in StaleReasons : <<cookie, why>> \notin stale

verify_session_cookie(cookie) ==
    IF cookie.kind = "absent" THEN None
    ELSE IF ProviderAccepts(cookie)
         THEN [uid |-> cookie.uid, customClaims |-> cookie.customClaims]
         ELSE None

\* has_pro_access consulting the claims only, as pro_required does
has_pro_access_ClaimsOnly(user) ==
    IF user = None THEN FALSE
    ELSE IF user.uid = "" THEN FALSE
    ELSE DictGet(user.customClaims, "pro", FALSE)

has_pro_access(user) ==
    IF user = None THEN FALSE
    ELSE IF user.uid = "" THEN FALSE
    ELSE is_registered_pro_user(user.uid)
            \/ DictGet(user.customClaims, "pro", FALSE)

\* request.path of the routes that carry @login_required
RoutePath(route) ==
    CASE route = "dashboard" -> "/dashboard"
      [] route = "get_progress" -> "/api/progress"
      [] route = "update_progress" -> "/api/progress"
      [] route = "pro_dashboard" -> "/pro"
      [] route = "create_checkout_session" -> "/create-checkout-session"
      [] route = "payment_success" -> "/payment/success"

\* the redirect of login_required: url_for('login', next=request.path)
LoginRedirect(route, cookie) ==
    [route |-> route, status |-> 302, body |-> "login", cookie |-> cookie,
     next |-> RoutePath(route)]

-----------------------------------------------------------------------------
\* Progress store

_load_progress(uid) ==
    IF progress[uid].exists THEN progress[uid].data
    ELSE {<<"completed", << >> >>}

\* the dict with d[key] = value
DictSet(d, key, value) == {kv \in d : kv[1] # key} \cup {<<key, value>>}

_all_lesson_slugs == Sorted(content)

\* prog.get('completed', []) as a set
CompletedOf(prog) == Range(DictGet(prog, "completed", << >>))

\* the summary returned by both progress handlers
Summary(route, cookie, data, comp) ==
    LET total == Len(_all_lesson_slugs)
    IN  [route |-> route, status |-> 200, body |-> "summary", cookie |-> cookie,
         data |-> data, completed |-> comp, total |-> total,
         percent |-> Percent(Cardinality(comp), total)]

-----------------------------------------------------------------------------
\* Text: a Python str literal is a TLA+ string, and CharTable gives its
\* characters (code points), on which the str methods and the regular
\* expressions of the source act

CharTable ==
    ("" :> << >>)
      @@ ("a" :> <<97>>)
      @@ ("A" :> <<65>>)
      @@ ("a-2" :> <<97, 45, 50>>)
      @@ ("a 2" :> <<97, 32, 50>>)
      @@ ("!" :> <<33>>)
      @@ ("h2" :> <<104, 50>>)
      @@ ("<b>a</b>" :> <<60, 98, 62, 97, 60, 47, 98, 62>>)
      @@ ("p" :> <<112>>)
      @@ ("q" :> <<113>>)
      @@ ("x" :> <<120>>)
      @@ ("y" :> <<121>>)
      @@ ("heading" :> <<104, 101, 97, 100, 105, 110, 103>>)
      @@ ("paragraph" :> <<112, 97, 114, 97, 103, 114, 97, 112, 104>>)
      @@ ("quiz" :> <<113, 117, 105, 122>>)
      @@ ("embed" :> <<101, 109, 98, 101, 100>>)
      @@ ("Quiz" :> <<81, 117, 105, 122>>)
      @@ ("widget" :> <<119, 105, 100, 103, 101, 116>>)
      @@ ("-" :> <<45>>)
      @@ ("h" :> <<104>>)
      @@ ("0" :> <<48>>)
      @@ ("z" :> <<122>>)
      @@ ("Z" :> <<90>>)
      @@ ("9" :> <<57>>)
      @@ ("<" :> <<60>>)
      @@ (">" :> <<62>>)
      @@ ("\"" :> <<34>>)
      @@ ("&" :> <<38>>)
      @@ ("'" :> <<39>>)
      @@ ("\n" :> <<10>>)
      @@ ("_" :> <<95>>)
      @@ ("&amp;" :> <<38, 97, 109, 112, 59>>)
      @@ ("&lt;" :> <<38, 108, 116, 59>>)
      @@ ("&gt;" :> <<38, 103, 116, 59>>)
      @@ ("&quot;" :> <<38, 113, 117, 111, 116, 59>>)
      @@ ("&#x27;" :> <<38, 35, 120, 50, 55, 59>>)
      @@ ("quiz-" :> <<113, 117, 105, 122, 45>>)
      @@ ("youtu.be/" :> <<121, 111, 117, 116, 117, 46, 98, 101, 47>>)
      @@ ("youtube.com/watch?v=" :>
            <<121, 111, 117, 116, 117, 98, 101, 46, 99, 111, 109, 47, 119,
            97, 116, 99, 104, 63, 118, 61>>)
      @@ ("youtube.com/embed/" :>
            <<121, 111, 117, 116, 117, 98, 101, 46, 99, 111, 109, 47, 101,
            109, 98, 101, 100, 47>>)
      @@ ("youtube.com/shorts/" :>
            <<121, 111, 117, 116, 117, 98, 101, 46, 99, 111, 109, 47, 115,
            104, 111, 114, 116, 115, 47>>)
      @@ ("youtube.com" :>
            <<121, 111, 117, 116, 117, 98, 101, 46, 99, 111, 109>>)
      @@ ("youtu.be" :> <<121, 111, 117, 116, 117, 46, 98, 101>>)
      @@ ("https://youtu.be/dQw4w9WgXcQ" :>
            <<104, 116, 116, 112, 115, 58, 47, 47, 121, 111, 117, 116, 117,
            46, 98, 101, 47, 100, 81, 119, 52, 119, 57, 87, 103, 88, 99, 81>>)
      @@ ("https://www.youtube.com/watch?v=dQw4w9WgXcQ&t=1" :>
            <<104, 116, 116, 112, 115, 58, 47, 47, 119, 119, 119, 46, 121,
            111, 117, 116, 117, 98, 101, 46, 99, 111, 109, 47, 119, 97, 116,
            99, 104, 63, 118, 61, 100, 81, 119, 52, 119, 57, 87, 103, 88, 99,
            81, 38, 116, 61, 49>>)
      @@ ("https://youtu.be/abc" :>
            <<104, 116, 116, 112, 115, 58, 47, 47, 121, 111, 117, 116, 117,
            46, 98, 101, 47, 97, 98, 99>>)
      @@ ("https://example.com/v" :>
            <<104, 116, 116, 112, 115, 58, 47, 47, 101, 120, 97, 109, 112,
            108, 101, 46, 99, 111, 109, 47, 118>>)
      @@ ("https://youtu.be/\"><iframe src=\"https://evil.example/\">" :>
            <<104, 116, 116, 112, 115, 58, 47, 47, 121, 111, 117, 116, 117,
            46, 98, 101, 47, 34, 62, 60, 105, 102, 114, 97, 109, 101, 32,
            115, 114, 99, 61, 34, 104, 116, 116, 112, 115, 58, 47, 47, 101,
            118, 105, 108, 46, 101, 120, 97, 109, 112, 108, 101, 47, 34, 62>>)
      @@ ("https://example.com/\"><iframe src=\"https://evil.example/\">" :>
            <<104, 116, 116, 112, 115, 58, 47, 47, 101, 120, 97, 109, 112,
            108, 101, 46, 99, 111, 109, 47, 34, 62, 60, 105, 102, 114, 97,
            109, 101, 32, 115, 114, 99, 61, 34, 104, 116, 116, 112, 115, 58,
            47, 47, 101, 118, 105, 108, 46, 101, 120, 97, 109, 112, 108, 101,
            47, 34, 62>>)
      @@ ("https://evil.example/" :>
            <<104, 116, 116, 112, 115, 58, 47, 47, 101, 118, 105, 108, 46,
            101, 120, 97, 109, 112, 108, 101, 47>>)
      @@ ("<iframe" :> <<60, 105, 102, 114, 97, 109, 101>>)
      @@ ("<iframe src=\"" :>
            <<60, 105, 102, 114, 97, 109, 101, 32, 115, 114, 99, 61, 34>>)
      @@ ("<div style=\"position:relative;padding-bottom:56.25%;height:0;min-height:300px;overflow:hidden;\">" :>
            <<60, 100, 105, 118, 32, 115, 116, 121, 108, 101, 61, 34, 112,
            111, 115, 105, 116, 105, 111, 110, 58, 114, 101, 108, 97, 116,
            105, 118, 101, 59, 112, 97, 100, 100, 105, 110, 103, 45, 98, 111,
            116, 116, 111, 109, 58, 53, 54, 46, 50, 53, 37, 59, 104, 101,
            105, 103, 104, 116, 58, 48, 59, 109, 105, 110, 45, 104, 101, 105,
            103, 104, 116, 58, 51, 48, 48, 112, 120, 59, 111, 118, 101, 114,
            102, 108, 111, 119, 58, 104, 105, 100, 100, 101, 110, 59, 34, 62>>)
      @@ ("<iframe src=\"https://www.youtube.com/embed/" :>
            <<60, 105, 102, 114, 97, 109, 101, 32, 115, 114, 99, 61, 34, 104,
            116, 116, 112, 115, 58, 47, 47, 119, 119, 119, 46, 121, 111, 117,
            116, 117, 98, 101, 46, 99, 111, 109, 47, 101, 109, 98, 101, 100,
            47>>)
      @@ ("https://www.youtube.com/embed/" :>
            <<104, 116, 116, 112, 115, 58, 47, 47, 119, 119, 119, 46, 121,
            111, 117, 116, 117, 98, 101, 46, 99, 111, 109, 47, 101, 109, 98,
            101, 100, 47>>)
      @@ ("\" title=\"YouTube video\" frameborder=\"0\" allow=\"accelerometer; autoplay; clipboard-write; encrypted-media; gyroscope; picture-in-picture; web-share\" allowfullscreen loading=\"lazy\" referrerpolicy=\"strict-origin-when-cross-origin\" style=\"position:absolute;top:0;left:0;width:100%;height:100%;border:0;\"></iframe>" :>
            <<34, 32, 116, 105, 116, 108, 101, 61, 34, 89, 111, 117, 84, 117,
            98, 101, 32, 118, 105, 100, 101, 111, 34, 32, 102, 114, 97, 109,
            101, 98, 111, 114, 100, 101, 114, 61, 34, 48, 34, 32, 97, 108,
            108, 111, 119, 61, 34, 97, 99, 99, 101, 108, 101, 114, 111, 109,
            101, 116, 101, 114, 59, 32, 97, 117, 116, 111, 112, 108, 97, 121,
            59, 32, 99, 108, 105, 112, 98, 111, 97, 114, 100, 45, 119, 114,
            105, 116, 101, 59, 32, 101, 110, 99, 114, 121, 112, 116, 101,
            100, 45, 109, 101, 100, 105, 97, 59, 32, 103, 121, 114, 111, 115,
            99, 111, 112, 101, 59, 32, 112, 105, 99, 116, 117, 114, 101, 45,
            105, 110, 45, 112, 105, 99, 116, 117, 114, 101, 59, 32, 119, 101,
            98, 45, 115, 104, 97, 114, 101, 34, 32, 97, 108, 108, 111, 119,
            102, 117, 108, 108, 115, 99, 114, 101, 101, 110, 32, 108, 111,
            97, 100, 105, 110, 103, 61, 34, 108, 97, 122, 121, 34, 32, 114,
            101, 102, 101, 114, 114, 101, 114, 112, 111, 108, 105, 99, 121,
            61, 34, 115, 116, 114, 105, 99, 116, 45, 111, 114, 105, 103, 105,
            110, 45, 119, 104, 101, 110, 45, 99, 114, 111, 115, 115, 45, 111,
            114, 105, 103, 105, 110, 34, 32, 115, 116, 121, 108, 101, 61, 34,
            112, 111, 115, 105, 116, 105, 111, 110, 58, 97, 98, 115, 111,
            108, 117, 116, 101, 59, 116, 111, 112, 58, 48, 59, 108, 101, 102,
            116, 58, 48, 59, 119, 105, 100, 116, 104, 58, 49, 48, 48, 37, 59,
            104, 101, 105, 103, 104, 116, 58, 49, 48, 48, 37, 59, 98, 111,
            114, 100, 101, 114, 58, 48, 59, 34, 62, 60, 47, 105, 102, 114,
            97, 109, 101, 62>>)
      @@ ("</div>" :> <<60, 47, 100, 105, 118, 62>>)
      @@ ("<p><a href=\"" :>
            <<60, 112, 62, 60, 97, 32, 104, 114, 101, 102, 61, 34>>)
      @@ ("\" target=\"_blank\" rel=\"noopener noreferrer\">Open video</a></p>" :>
            <<34, 32, 116, 97, 114, 103, 101, 116, 61, 34, 95, 98, 108, 97,
            110, 107, 34, 32, 114, 101, 108, 61, 34, 110, 111, 111, 112, 101,
            110, 101, 114, 32, 110, 111, 114, 101, 102, 101, 114, 114, 101,
            114, 34, 62, 79, 112, 101, 110, 32, 118, 105, 100, 101, 111, 60,
            47, 97, 62, 60, 47, 112, 62>>)
      @@ ("\" target=\"_blank\" rel=\"noopener noreferrer\">Open resource</a></p>" :>
            <<34, 32, 116, 97, 114, 103, 101, 116, 61, 34, 95, 98, 108, 97,
            110, 107, 34, 32, 114, 101, 108, 61, 34, 110, 111, 111, 112, 101,
            110, 101, 114, 32, 110, 111, 114, 101, 102, 101, 114, 114, 101,
            114, 34, 62, 79, 112, 101, 110, 32, 114, 101, 115, 111, 117, 114,
            99, 101, 60, 47, 97, 62, 60, 47, 112, 62>>)
      @@ ("-2" :> <<45, 50>>)
      @@ ("Alpha" :> <<65, 108, 112, 104, 97>>)
      @@ ("a css intro" :>
            <<97, 32, 99, 115, 115, 32, 105, 110, 116, 114, 111>>)
      @@ ("css" :> <<99, 115, 115>>)
      @@ ("CSS3" :> <<67, 83, 83, 51>>)
      @@ ("pro" :> <<112, 114, 111>>)
      @@ ("Pro" :> <<80, 114, 111>>)
      @@ ("alpha css" :> <<97, 108, 112, 104, 97, 32, 99, 115, 115>>)
      @@ (" " :> <<32>>)
      @@ (" css " :> <<32, 99, 115, 115, 32>>)
      @@ ("alpha" :> <<97, 108, 112, 104, 97>>)
      @@ ("zz" :> <<122, 122>>)

\* the characters of the literal s
Chars(s) == CharTable[s]

\* the code points of the single characters the source names
CharCode ==
    ("A" :> 65)
      @@ ("Z" :> 90)
      @@ ("a" :> 97)
      @@ ("0" :> 48)
      @@ ("&" :> 38)
      @@ ("<" :> 60)
      @@ (">" :> 62)
      @@ ("\"" :> 34)
      @@ ("'" :> 39)
      @@ ("z" :> 122)
      @@ ("9" :> 57)
      @@ ("-" :> 45)
      @@ ("_" :> 95)

\* the only character of a one-character literal
Ch(s) == CharCode[s]

\* str.lower()
Lower(s) ==
    [i \in DOMAIN s |->
        IF s[i] \in Ch("A")..Ch("Z") THEN s[i] + (Ch("a") - Ch("A")) ELSE s[i]]

\* s[i:].startswith(pre), for a position i of s counted from 1
StartsAt(s, i, pre) ==
    /\ i + Len(pre) - 1 <= Len(s)
    /\ SubSeq(s, i, i + Len(pre) - 1) = pre

\* sub in s
Contains(s, sub) == \E i \in 1..(Len(s) + 1) : StartsAt(s, i, sub)

\* str(n) for an int n >= 0
RECURSIVE Decimal(_)
Decimal(n) ==
    IF n < 10 THEN <<Ch("0") + n>>
    ELSE Decimal(n \div 10) \o <<Ch("0") + (n % 10)>>

\* html.escape(s)
RECURSIVE HtmlEscape(_)
HtmlEscape(s) ==
    IF s = << >> THEN << >>
    ELSE LET c == Head(s)
             e == IF c = Ch("&") THEN Chars("&amp;")
                  ELSE IF c = Ch("<") THEN Chars("&lt;")
                  ELSE IF c = Ch(">") THEN Chars("&gt;")
                  ELSE IF c = Ch("\"") THEN Chars("&quot;")
                  ELSE IF c = Ch("'") THEN Chars("&#x27;")
                  ELSE <<c>>
         IN  e \o HtmlEscape(Tail(s))

-----------------------------------------------------------------------------
\* JSON values as json.load returns them.  null and an absent key (dict.get)
\* are None, a list is [list |-> <<...>>], a number [int |-> n], a string
\* [str |-> "..."]; a dict is a record with its keys as fields.

JList(items) == [list |-> items]
JInt(n) == [int |-> n]
JStr(s) == [str |-> s]

\* not v
Falsy(v) == v \in {None, JList(<< >>), JInt(0), JStr("")}

\* v or default
OrElse(v, default) == IF Falsy(v) THEN default ELSE v

\* isinstance(v, list)
IsList(v) == "list" \in DOMAIN v

\* isinstance(b, dict), for a member b of a blocks list
IsDict(b) == "type" \in DOMAIN b

\* (b.get('type') or '').lower() == name
TypeIs(b, name) == Lower(Chars(b.type)) = Chars(name)

-----------------------------------------------------------------------------
\* Heading anchors (render_blocks)

\* re.sub(r"<[^>]+>", '', s)
RECURSIVE StripTags(_)
StripTags(s) ==
    IF s = << >> THEN s
    ELSE LET closing == {j \in 2..Len(s) : s[j] = Ch(">")}
             first == IF closing = {} THEN 0
                      ELSE CHOOSE j \in closing : \A k \in closing : j <= k
         IN  IF Head(s) = Ch("<") /\ first >= 3
             THEN StripTags(SubSeq(s, first + 1, Len(s)))
             ELSE <<Head(s)>> \o StripTags(Tail(s))

\* a character of the class [a-z0-9\- ]
SlugChar(c) ==
    \/ c \in Ch("a")..Ch("z")
    \/ c \in Ch("0")..Ch("9")
    \/ c = Ch("-")
    \/ c = SP

\* int(b.get('level') or 2) clamped to 1..6; level 0 stands for an absent key
LevelOf(b) ==
    LET level == IF b.level = 0 THEN 2 ELSE b.level
    IN  IF level < 1 THEN 1 ELSE IF level > 6 THEN 6 ELSE level

\* re.sub(r"[^a-z0-9\- ]+", '', slug_src.lower()).strip().replace(' ', '-')
\*     or f"h{level}"
\* s.replace(' ', '-')
Dashed(s) == [i \in DOMAIN s |-> IF s[i] = SP THEN Ch("-") ELSE s[i]]

\* s or f"h{level}"
OrLevel(s, level) == IF s = << >> THEN Chars("h") \o Decimal(level) ELSE s

base_id(text, level) ==
    OrLevel(Dashed(Strip(SelectSeq(Lower(StripTags(text)), SlugChar))), level)

\* f"{base_id}-{i}"
Suffixed(base, i) == base \o Chars("-") \o Decimal(i)

\* an id that takes the base id whether or not it is in use
unique_id_Unchecked(base, used_ids, i) == base

\* the while loop: the first of base-i, base-(i+1), ... that is not in use
RECURSIVE unique_id(_, _, _)
unique_id(base, used_ids, i) ==
    IF Suffixed(base, i) \in used_ids
    THEN unique_id(base, used_ids, i + 1)
    ELSE Suffixed(base, i)

\* an id that is suffixed -2 once, without looking whether that is in use too
HeadingId_NoRetry(base, used_ids) ==
    IF base \in used_ids THEN base \o Chars("-2") ELSE base

\* unique_id = base_id; i = 2; while unique_id in used_ids: ...
HeadingId(base, used_ids) ==
    IF base \in used_ids THEN unique_id(base, used_ids, 2) ELSE base

-----------------------------------------------------------------------------
\* Embed blocks (_youtube_embed and the embed branch of render_blocks)

\* the alternatives youtu\.be/ | youtube\.com/(?:watch\?v=|embed/|shorts/)
YtPrefixes ==
    {Chars("youtu.be/"), Chars("youtube.com/watch?v="),
     Chars("youtube.com/embed/"), Chars("youtube.com/shorts/")}

\* a character of the class [A-Za-z0-9_-]
IdChar(c) ==
    \/ c \in Ch("A")..Ch("Z")
    \/ c \in Ch("a")..Ch("z")
    \/ c \in Ch("0")..Ch("9")
    \/ c = Ch("_")
    \/ c = Ch("-")

\* the length of the longest run of id characters of s that starts at j
IdRun(s, j) ==
    CHOOSE k \in 0..(Len(s) - j + 1) :
        /\ \A t \in j..(j + k - 1) : IdChar(s[t])
        /\ j + k > Len(s) \/ ~IdChar(s[j + k])

\* where the pattern matches: a prefix at i followed by {6,} id characters
YtMatches(url) ==
    {m \in (1..Len(url)) \X YtPrefixes :
        /\ StartsAt(url, m[1], m[2])
        /\ IdRun(url, m[1] + Len(m[2])) >= 6}

\* re.search(...).group(1) of the leftmost match, << >> when nothing matches
Leftmost(matches) == CHOOSE m \in matches : \A n \in matches : m[1] <= n[1]

\* the run of id characters of url that starts at from
Group1(url, from) == SubSeq(url, from, from + IdRun(url, from) - 1)

\* the end of the prefix of match m
PrefixEnd(m) == m[1] + Len(m[2])

YoutubeIdIn(url, matches) ==
    IF matches = {} THEN << >>
    ELSE Group1(url, PrefixEnd(Leftmost(matches)))

youtube_id(url) == YoutubeIdIn(url, YtMatches(url))

\* the markup _youtube_embed returns, '' when the url has no video id
YoutubeFrame(yt) ==
    IF yt # << >>
        THEN Chars("<div style=\"position:relative;padding-bottom:56.25%;height:0;min-height:300px;overflow:hidden;\">")
             \o Chars("<iframe src=\"https://www.youtube.com/embed/") \o yt
             \o Chars("\" title=\"YouTube video\" frameborder=\"0\" allow=\"accelerometer; autoplay; clipboard-write; encrypted-media; gyroscope; picture-in-picture; web-share\" allowfullscreen loading=\"lazy\" referrerpolicy=\"strict-origin-when-cross-origin\" style=\"position:absolute;top:0;left:0;width:100%;height:100%;border:0;\"></iframe>")
             \o Chars("</div>")
        ELSE << >>

_youtube_embed(url) == YoutubeFrame(youtube_id(url))

\* what the embed branch appends for url, << >> when it appends nothing
FrameOrLink(embed_html, url) ==
    IF embed_html # << >>
    THEN embed_html
    ELSE Chars("<p><a href=\"") \o url
         \o Chars("\" target=\"_blank\" rel=\"noopener noreferrer\">Open video</a></p>")

EmbedHtml(url) ==
    IF Contains(url, Chars("youtube.com")) \/ Contains(url, Chars("youtu.be"))
    THEN FrameOrLink(_youtube_embed(url), url)
    ELSE IF url # << >>
         THEN Chars("<p><a href=\"") \o url
              \o Chars("\" target=\"_blank\" rel=\"noopener noreferrer\">Open resource</a></p>")
         ELSE << >>

-----------------------------------------------------------------------------
\* render_blocks: one pass over the blocks, carrying the parts and the table
\* of contents built so far, the heading ids in use and the quiz counter

\* if not isinstance(choices, list) or correct is None: continue
QuizSkipped(b) ==
    \/ ~IsList(OrElse(b.choices, JList(<< >>)))
    \/ b.correctIndex = None

RenderStart == [parts |-> << >>, toc |-> << >>, used_ids |-> {}, quiz_counter |-> 0]

\* the heading branch: the id is taken, the heading and its entry are added
WithHeading(st, level, id, clean_text) ==
    [st EXCEPT
        !.used_ids = @ \cup {id},
        !.parts = Append(@, [kind |-> "heading", level |-> level,
                             id |-> id, text |-> clean_text]),
        !.toc = Append(@, [level |-> level, id |-> id, text |-> clean_text])]

\* the embed branch: the markup is added unless there is none
WithEmbed(st, html) ==
    IF html = << >> THEN st
    ELSE [st EXCEPT !.parts = Append(@, [kind |-> "embed", html |-> html])]

\* the quiz branch: the n-th quiz of the page with its choices
WithQuiz(st, b, choices, n) ==
    [st EXCEPT
        !.quiz_counter = n,
        !.parts = Append(@,
            [kind |-> "quiz",
             qid |-> Chars("quiz-") \o Decimal(n),
             answer |-> b.correctIndex.int,
             question |-> HtmlEscape(Chars(b.question)),
             labels |-> [i \in DOMAIN choices |-> HtmlEscape(Chars(choices[i]))]])]

\* the body of the for loop
RenderBlock(st, b) ==
    IF ~IsDict(b) THEN st
    ELSE IF TypeIs(b, "heading")
    THEN WithHeading(st, LevelOf(b),
                     HeadingId(base_id(Chars(b.text), LevelOf(b)), st.used_ids),
                     HtmlEscape(Chars(b.text)))
    ELSE IF TypeIs(b, "paragraph")
    THEN [st EXCEPT !.parts = Append(@, [kind |-> "p",
                                         text |-> HtmlEscape(Chars(b.text))])]
    ELSE IF TypeIs(b, "embed")
    THEN WithEmbed(st, EmbedHtml(Strip(Chars(b.url))))
    ELSE IF TypeIs(b, "quiz")
    THEN IF QuizSkipped(b) THEN st
         ELSE WithQuiz(st, b, OrElse(b.choices, JList(<< >>)).list,
                       st.quiz_counter + 1)
    ELSE st

RECURSIVE RenderFrom(_, _)
RenderFrom(st, blocks) ==
    IF blocks = << >> THEN st
    ELSE RenderFrom(RenderBlock(st, Head(blocks)), Tail(blocks))

\* the parts joined into the page and the entries of the table of contents
PageOf(st) == [parts |-> st.parts, toc |-> st.toc]

render_blocks(blocks) == PageOf(RenderFrom(RenderStart, blocks))

-----------------------------------------------------------------------------
\* Lesson files

\* json.load of a lesson file that holds a JSON object
Lesson(title, summary, tags, blocks) ==
    [shape |-> "object", title |-> title, summary |-> summary, tags |-> tags,
     blocks |-> blocks]

\* a file json.load raises on
Unparsable == [shape |-> "unparsable"]

\* a file that holds valid JSON that is not an object, such as []
NotAnObject == [shape |-> "array"]

\* the lesson files of the deployed content root: tagged documents without blocks
LessonFiles(slugs) ==
    [s \in slugs |->
        Lesson("", "", JList(IF s \in DOMAIN LessonTags THEN LessonTags[s]
                             ELSE << >>), << >>)]

\* tags = data.get('tags') or []; if not isinstance(tags, list): tags = []
TagsOf(data) ==
    IF IsList(OrElse(data.tags, JList(<< >>)))
    THEN OrElse(data.tags, JList(<< >>)).list
    ELSE << >>

-----------------------------------------------------------------------------
\* Content index (build_lesson_index, get_lesson_index)

\* '\n'.join(texts)
RECURSIVE JoinLines(_)
JoinLines(texts) ==
    IF texts = << >> THEN << >>
    ELSE IF Len(texts) = 1 THEN texts[1]
    ELSE texts[1] \o Chars("\n") \o JoinLines(Tail(texts))

\* the members of a choices value as the for loop sees them: the items of a
\* list, the characters of a string
ChoiceTexts(choices) ==
    IF IsList(choices) THEN [i \in DOMAIN choices.list |-> Chars(choices.list[i])]
    ELSE IF "str" \in DOMAIN choices
         THEN [i \in DOMAIN Chars(choices.str) |-> <<Chars(choices.str)[i]>>]
         ELSE << >>

\* the texts one block adds to the searchable text
BlockTexts(b) ==
    IF ~IsDict(b) THEN << >>
    ELSE IF TypeIs(b, "heading") \/ TypeIs(b, "paragraph")
    THEN <<Chars(b.text)>>
    ELSE IF TypeIs(b, "quiz")
    THEN <<Chars(b.question)>>
            \o ChoiceTexts(OrElse(b.choices, JList(<< >>)))
            \o << << >> >>
    ELSE << >>

RECURSIVE BlocksTexts(_)
BlocksTexts(blocks) ==
    IF blocks = << >> THEN << >>
    ELSE BlockTexts(Head(blocks)) \o BlocksTexts(Tail(blocks))

\* the index entry of the lesson document data stored under slug
IndexEntry(slug, data) ==
    [slug |-> slug, title |-> data.title, summary |-> data.summary,
     tags |-> TagsOf(data),
     text |-> Lower(JoinLines(<<Chars(data.title), Chars(data.summary)>>
                                \o BlocksTexts(data.blocks)))]

\* os.walk lists the files in an order the file system fixes; the sorted
\* order stands for it
WalkOrder == Sorted(content)

\* data.get(...) on a document that parsed but is not a dict raises, outside
\* the try block that guards json.load
BuildRaises == \E s \in content : files[s].shape = "array"

\* the slugs of the files the scan does not skip
Scanned == SelectSeq(WalkOrder, LAMBDA s : files[s].shape # "unparsable")

\* the list build_lesson_index returns when it does not raise
build_lesson_index ==
    JList([i \in DOMAIN Scanned |-> IndexEntry(Scanned[i], files[Scanned[i]])])

\* a read that rebuilds whatever the cache holds
IndexCached_Never == FALSE

\* app.config.get('_LESSON_INDEX') is truthy
IndexCached == ~Falsy(LESSON_INDEX)

\* get_lesson_index(): the list it returns, the value it leaves in the cache,
\* whether it rebuilt, and whether the rebuild raised
get_lesson_index ==
    IF IndexCached
    THEN [rebuilt |-> FALSE, raised |-> FALSE, value |-> LESSON_INDEX,
          cache |-> LESSON_INDEX]
    ELSE IF BuildRaises
    THEN [rebuilt |-> TRUE, raised |-> TRUE, value |-> JList(<< >>),
          cache |-> LESSON_INDEX]
    ELSE [rebuilt |-> TRUE, raised |-> FALSE, value |-> build_lesson_index,
          cache |-> build_lesson_index]

\* items[:6] as the slugs of the entries
FirstSix(items) == [i \in 1..(IF Len(items) < 6 THEN Len(items) ELSE 6) |-> items[i].slug]

-----------------------------------------------------------------------------
\* Initial state: a fresh deployment over some content root

Init ==
    /\ proFile = NoFile
    /\ PRO_USERS = _load_pro_users(NoFile)
    /\ claims = [u \in Users |-> NoClaims]
    /\ sessions = {}
    /\ checkouts = << >>
    /\ progress = [u \in Users |-> NoFile]
    /\ LESSON_INDEX = None
    /\ content = ContentRoot
    /\ files = LessonFiles(ContentRoot)
    /\ stale = {}
    /\ inflight = {}
    /\ resp = NoResp

-----------------------------------------------------------------------------
\* POST /sessionLogin

IdTokens == {[kind |-> "missing"], [kind |-> "invalid"]}
                \cup [kind : {"valid"}, uid : Users]

session_login(token) ==
    /\ IF token.kind = "missing"
       THEN /\ resp' = [route |-> "session_login", status |-> 400,
                        body |-> "Missing idToken", cookie |-> NoCookie]
            /\ UNCHANGED sessions
       ELSE IF token.kind = "invalid"
       THEN /\ resp' = [route |-> "session_login", status |-> 401,
                        body |-> "Failed to create session cookie",
                        cookie |-> NoCookie]
            /\ UNCHANGED sessions
       ELSE LET c == [kind |-> "session", uid |-> token.uid,
                      customClaims |-> claims[token.uid]]
            IN  /\ Cardinality(sessions \cup {c}) <= MaxSessions
                /\ sessions' = sessions \cup {c}
                /\ resp' = [route |-> "session_login", status |-> 200,
                            body |-> "ok", cookie |-> c]
    /\ UNCHANGED <<PRO_USERS, proFile, claims, checkouts, progress,
                   LESSON_INDEX, content, files, stale, inflight>>

-----------------------------------------------------------------------------
\* GET /lesson/<slug>

IsProLesson(slug) == "pro" \in Range(TagsOf(files[slug]))

\* a gate that asks for a signed-in user only
LessonGate_LoginOnly(tags, cookie) ==
    /\ "pro" \in Range(tags)
    /\ verify_session_cookie(cookie) = None

\* the Pro gate of the lesson route: TRUE when the request must be redirected
LessonGate(tags, cookie) ==
    /\ "pro" \in Range(tags)
    /\ LET user == verify_session_cookie(cookie)
       IN  user = None \/ ~has_pro_access(user)

\* render_template('lesson.html', ..., content_html=html, toc_html=toc_html)
LessonPage(cookie, slug, page) ==
    [route |-> "lesson", status |-> 200, body |-> "lesson", cookie |-> cookie,
     slug |-> slug, parts |-> page.parts, toc |-> page.toc]

lesson(cookie, slug) ==
    /\ cookie \in Cookies
    /\ IF slug \notin content
       THEN /\ resp' = [route |-> "lesson", status |-> 404, body |-> "not_found",
                        cookie |-> cookie, slug |-> slug]
            /\ UNCHANGED LESSON_INDEX
       ELSE IF files[slug].shape # "object"
       THEN \* json.load or data.get raises
            /\ resp' = [route |-> "lesson", status |-> 500,
                        body |-> "server_error", cookie |-> cookie,
                        slug |-> slug]
            /\ UNCHANGED LESSON_INDEX
       ELSE IF LessonGate(TagsOf(files[slug]), cookie)
       THEN /\ resp' = [route |-> "lesson", status |-> 302, body |-> "pricing",
                        cookie |-> cookie, slug |-> slug]
            /\ UNCHANGED LESSON_INDEX
       ELSE /\ resp' = LessonPage(cookie, slug, render_blocks(files[slug].blocks))
            /\ LESSON_INDEX' = None
    /\ UNCHANGED <<PRO_USERS, proFile, claims, sessions, checkouts, progress,
                   content, files, stale, inflight>>

-----------------------------------------------------------------------------
\* GET /api/progress

get_progress(cookie) ==
    /\ cookie \in Cookies
    /\ LET user == verify_session_cookie(cookie)
       IN  IF user = None
           THEN resp' = LoginRedirect("get_progress", cookie)
           ELSE resp' = Summary("get_progress", cookie, NoBody,
                                CompletedOf(_load_progress(user.uid)))
    /\ UNCHANGED <<PRO_USERS, proFile, claims, sessions, checkouts, progress,
                   LESSON_INDEX, content, files, stale, inflight>>

-----------------------------------------------------------------------------
\* POST /api/progress

\* JSON bodies: the slug key may be absent; completed is absent, true or false
Bodies == [hasSlug : {TRUE}, slug : RawSlugs, completed : {"true", "false"}]
            \cup {NoBody, [hasSlug |-> TRUE, slug |-> SlugA, completed |-> "absent"]}

\* the bodies posted while the entitlement flow is explored
MainBodies == {NoBody, [hasSlug |-> TRUE, slug |-> SlugA, completed |-> "true"]}

\* (data.get('slug') or '').strip()
SlugOf(data) == Strip(IF data.hasSlug THEN data.slug ELSE << >>)

\* bool(data.get('completed', True))
DoneOf(data) == data.completed # "false"

\* a validation that lets every slug through
MissingSlug_Never(slug) == FALSE

\* if not slug
MissingSlug(slug) == slug = << >>

\* an update that toggles the slug whatever the flag says
UpdatedSet_Toggle(comp, slug, done) ==
    IF slug \in comp THEN comp \ {slug} ELSE comp \cup {slug}

\* the completed set after the update
UpdatedSet(comp, slug, done) ==
    IF done THEN comp \cup {slug} ELSE comp \ {slug}

update_progress(cookie, data) ==
    /\ cookie \in Cookies
    /\ LET user == verify_session_cookie(cookie)
           slug == SlugOf(data)
           done == DoneOf(data)
       IN  IF user = None
           THEN /\ resp' = LoginRedirect("update_progress", cookie)
                /\ UNCHANGED progress
           ELSE IF MissingSlug(slug)
           THEN /\ resp' = [route |-> "update_progress", status |-> 400,
                            body |-> "Missing slug", cookie |-> cookie,
                            data |-> data]
                /\ UNCHANGED progress
           ELSE LET prog == _load_progress(user.uid)
                    comp == UpdatedSet(CompletedOf(prog), slug, done)
                    saved == DictSet(prog, "completed", Sorted(comp))
                IN  /\ progress' = [progress EXCEPT ![user.uid] =
                                        [exists |-> TRUE, data |-> saved]]
                    /\ resp' = Summary("update_progress", cookie, data, comp)
    /\ UNCHANGED <<PRO_USERS, proFile, claims, sessions, checkouts,
                   LESSON_INDEX, content, files, stale, inflight>>

-----------------------------------------------------------------------------
\* GET /admin/register-pro/<uid>

admin_register_pro(uid) ==
    /\ PRO_USERS' = register_pro_user(uid).set
    /\ proFile' = register_pro_user(uid).file
    /\ resp' = [route |-> "admin_register_pro", status |-> 200,
                body |-> "User registered as Pro", cookie |-> NoCookie,
                uid |-> uid, found |-> is_registered_pro_user(uid)]
    /\ UNCHANGED <<claims, sessions, checkouts, progress, LESSON_INDEX,
                   content, files, stale, inflight>>

-----------------------------------------------------------------------------
\* POST /create-checkout-session

create_checkout_session(cookie, created) ==
    /\ cookie \in Cookies
    /\ LET user == verify_session_cookie(cookie)
       IN  IF user = None
           THEN /\ resp' = LoginRedirect("create_checkout_session", cookie)
                /\ UNCHANGED checkouts
           ELSE IF ~created
           THEN /\ resp' = [route |-> "create_checkout_session", status |-> 400,
                            body |-> "error", cookie |-> cookie, id |-> 0]
                /\ UNCHANGED checkouts
           ELSE /\ Len(checkouts) < MaxCheckouts
                /\ checkouts' = Append(checkouts,
                                  [user_id |-> user.uid, payment_status |-> "unpaid"])
                /\ resp' = [route |-> "create_checkout_session", status |-> 200,
                            body |-> "id", cookie |-> cookie,
                            id |-> Len(checkouts) + 1]
    /\ UNCHANGED <<PRO_USERS, proFile, claims, sessions, progress,
                   LESSON_INDEX, content, files, stale, inflight>>

\* the customer completes the payment on the processor's hosted page
Pay(id) ==
    /\ id \in DOMAIN checkouts
    /\ checkouts[id].payment_status = "unpaid"
    /\ checkouts' = [checkouts EXCEPT ![id].payment_status = "paid"]
    /\ resp' = NoResp
    /\ UNCHANGED <<PRO_USERS, proFile, claims, sessions, progress,
                   LESSON_INDEX, content, files, stale, inflight>>

-----------------------------------------------------------------------------
\* GET /payment/success?session_id=

\* stripe.checkout.Session.retrieve(session_id).payment_status, or "error"
\* when the retrieval raises
Retrieve(session_id) ==
    IF session_id \in DOMAIN checkouts
    THEN checkouts[session_id].payment_status
    ELSE "error"

\* a status test that only rules out a failed retrieval
IsPaid_Retrieved(payment_status) == payment_status # "error"

\* session.payment_status == 'paid'
IsPaid(payment_status) == payment_status = "paid"

\* mirror: "set" or "failed" once set_custom_user_claims was called
PaymentResp(cookie, session_id, status, body, mirror) ==
    [route |-> "payment_success", status |-> status, body |-> body,
     cookie |-> cookie, session_id |-> session_id, mirror |-> mirror]

\* the paid branch without the inner try/except: a failed claims update
\* reaches the outer handler
PaymentPaid_NoSwallow(cookie, session_id, uid) ==
    /\ PRO_USERS' = register_pro_user(uid).set
    /\ proFile' = register_pro_user(uid).file
    /\ \/ /\ claims' = [claims EXCEPT ![uid] = ProClaims]
          /\ resp' = PaymentResp(cookie, session_id, 200, "payment_success", "set")
       \/ /\ UNCHANGED claims
          /\ resp' = PaymentResp(cookie, session_id, 302, "pricing", "failed")

\* the branch taken when payment_status == 'paid': the user is registered,
\* then set_custom_user_claims either succeeds or raises and is ignored
PaymentPaid(cookie, session_id, uid) ==
    /\ PRO_USERS' = register_pro_user(uid).set
    /\ proFile' = register_pro_user(uid).file
    /\ \/ /\ claims' = [claims EXCEPT ![uid] = ProClaims]
          /\ resp' = PaymentResp(cookie, session_id, 200, "payment_success", "set")
       \/ /\ UNCHANGED claims
          /\ resp' = PaymentResp(cookie, session_id, 200, "payment_success", "failed")

\* session_id 0 stands for a request without the session_id parameter
payment_success(cookie, session_id) ==
    /\ cookie \in Cookies
    /\ LET user == verify_session_cookie(cookie)
       IN  IF user = None
           THEN /\ resp' = LoginRedirect("payment_success", cookie)
                /\ UNCHANGED <<PRO_USERS, proFile, claims>>
           ELSE IF session_id = 0
           THEN /\ resp' = PaymentResp(cookie, session_id, 302, "pricing", "skipped")
                /\ UNCHANGED <<PRO_USERS, proFile, claims>>
           ELSE IF IsPaid(Retrieve(session_id))
           THEN PaymentPaid(cookie, session_id, user.uid)
           ELSE /\ resp' = PaymentResp(cookie, session_id, 302, "pricing", "skipped")
                /\ UNCHANGED <<PRO_USERS, proFile, claims>>
    /\ UNCHANGED <<sessions, checkouts, progress, LESSON_INDEX, content, files, stale, inflight>>

-----------------------------------------------------------------------------
\* POST /stripe/webhook

EventTypes == {"checkout.session.completed", "payment_intent.succeeded"}

\* sig: the outcome of stripe.Webhook.construct_event; user_id: the user_id of
\* the event's metadata, "" when the metadata has none
Events == [sig : {"verified", "invalid_payload", "invalid_signature"},
           type : EventTypes, user_id : Users \cup {""}]

WebhookResp(event, status, body) ==
    [route |-> "stripe_webhook", status |-> status, body |-> body,
     cookie |-> NoCookie, event |-> event]

\* a construction that accepts every event
construct_event_Unverified(event) == "verified"

\* stripe.Webhook.construct_event(payload, sig_header, webhook_secret)
construct_event(event) == event.sig

\* the handling of an event whose signature verified:
\* set_custom_user_claims either succeeds or raises, and nothing catches it
WebhookHandle(event) ==
    IF event.type = "checkout.session.completed" /\ event.user_id # ""
    THEN \/ /\ claims' = [claims EXCEPT ![event.user_id] = ProClaims]
            /\ resp' = WebhookResp(event, 200, "Success")
         \/ /\ UNCHANGED claims
            /\ resp' = WebhookResp(event, 500, "server_error")
    ELSE /\ UNCHANGED claims
         /\ resp' = WebhookResp(event, 200, "Success")

stripe_webhook(event) ==
    /\ IF construct_event(event) = "invalid_payload"
       THEN /\ resp' = WebhookResp(event, 400, "Invalid payload")
            /\ UNCHANGED claims
       ELSE IF construct_event(event) = "invalid_signature"
       THEN /\ resp' = WebhookResp(event, 400, "Invalid signature")
            /\ UNCHANGED claims
       ELSE \* the processor signs a user_id only for a checkout this app
            \* created, and a completed event only once the checkout is paid
            /\ (event.sig = "verified" /\ event.user_id # "") =>
                  \E i \in DOMAIN checkouts :
                      /\ checkouts[i].user_id = event.user_id
                      /\ event.type = "checkout.session.completed" =>
                             checkouts[i].payment_status = "paid"
            /\ WebhookHandle(event)
    /\ UNCHANGED <<PRO_USERS, proFile, sessions, checkouts, progress,
                   LESSON_INDEX, content, files, stale, inflight>>

-----------------------------------------------------------------------------
\* GET /

index ==
    /\ LET read == get_lesson_index
       IN  /\ LESSON_INDEX' = read.cache
           /\ resp' = [route |-> "index", status |-> 200, body |-> "index",
                       cookie |-> NoCookie, rebuilt |-> read.rebuilt,
                       lessons |-> IF read.raised THEN << >>
                                   ELSE FirstSix(read.value.list)]
    /\ UNCHANGED <<PRO_USERS, proFile, claims, sessions, checkouts, progress,
                   content, files, stale, inflight>>

-----------------------------------------------------------------------------
\* GET /dashboard

dashboard(cookie) ==
    /\ cookie \in Cookies
    /\ LET user == verify_session_cookie(cookie)
           read == get_lesson_index
       IN  IF user = None
           THEN /\ resp' = LoginRedirect("dashboard", cookie)
                /\ UNCHANGED LESSON_INDEX
           ELSE /\ LESSON_INDEX' = read.cache
                /\ resp' = [route |-> "dashboard", status |-> 200,
                            body |-> "dashboard", cookie |-> cookie,
                            rebuilt |-> read.rebuilt,
                            lessons |-> IF read.raised THEN << >>
                                        ELSE FirstSix(read.value.list)]
    /\ UNCHANGED <<PRO_USERS, proFile, claims, sessions, checkouts, progress,
                   content, files, stale, inflight>>

-----------------------------------------------------------------------------
\* GET /search?q=

\* the queries a visitor types
Queries == {"", " ", "a", "A", " css ", "pro", "alpha", "zz"}

\* a score that counts every matching tag
TagScore_PerTag(ql, tags) ==
    2 * Cardinality({i \in DOMAIN tags : Contains(Lower(Chars(tags[i])), ql)})

\* 2 if any(ql in str(t).lower() for t in tags) else 0
TagScore(ql, tags) ==
    IF \E i \in DOMAIN tags : Contains(Lower(Chars(tags[i])), ql) THEN 2 ELSE 0

\* the score of one index entry for the lower-cased query ql
Score(ql, item) ==
    (IF Contains(Lower(Chars(item.title)), ql) THEN 3 ELSE 0)
        + (IF Contains(Lower(Chars(item.summary)), ql) THEN 2 ELSE 0)
        + TagScore(ql, item.tags)
        + (IF Contains(item.text, ql) THEN 1 ELSE 0)

\* results.sort(key=lambda r: r['score'], reverse=True): a stable sort, so
\* the results of one score keep their order; no score exceeds 8
RECURSIVE ByScoreFrom(_, _)
ByScoreFrom(results, score) ==
    IF score = 0 THEN << >>
    ELSE SelectSeq(results, LAMBDA r : r.score = score)
            \o ByScoreFrom(results, score - 1)

\* the results list for the stripped query q over the index idx
SearchResults(q, idx) ==
    IF q = << >> THEN << >>
    ELSE LET scored == [i \in DOMAIN idx |->
                          [slug |-> idx[i].slug, score |-> Score(Lower(q), idx[i])]]
         IN  ByScoreFrom(SelectSeq(scored, LAMBDA r : r.score # 0), 8)

search(query) ==
    /\ LET q == Strip(Chars(query))
           read == get_lesson_index
       IN  /\ LESSON_INDEX' = read.cache
           /\ IF read.raised
              THEN resp' = [route |-> "search", status |-> 500,
                            body |-> "server_error", cookie |-> NoCookie,
                            rebuilt |-> read.rebuilt, query |-> query]
              ELSE resp' = [route |-> "search", status |-> 200,
                            body |-> "search", cookie |-> NoCookie,
                            rebuilt |-> read.rebuilt, query |-> query,
                            results |-> SearchResults(q, read.value.list)]
    /\ UNCHANGED <<PRO_USERS, proFile, claims, sessions, checkouts, progress,
                   content, files, stale, inflight>>

-----------------------------------------------------------------------------
\* GET /pro

\* the test of pro_required, a decorator that no route carries:
\* user.get('customClaims', {}).get('pro', False)
pro_required(user) == DictGet(user.customClaims, "pro", FALSE)

\* a dashboard guarded by the test of pro_required
ProDenied_ClaimsOnly(user) == ~pro_required(user)

\* if not has_pro_access(g.user)
ProDenied(user) == ~has_pro_access(user)

pro_dashboard(cookie) ==
    /\ cookie \in Cookies
    /\ LET user == verify_session_cookie(cookie)
           read == get_lesson_index
       IN  IF user = None
           THEN /\ resp' = LoginRedirect("pro_dashboard", cookie)
                /\ UNCHANGED LESSON_INDEX
           ELSE IF ProDenied(user)
           THEN /\ resp' = [route |-> "pro_dashboard", status |-> 302,
                            body |-> "pricing", cookie |-> cookie]
                /\ UNCHANGED LESSON_INDEX
           ELSE /\ LESSON_INDEX' = read.cache
                /\ IF read.raised
                   THEN resp' = [route |-> "pro_dashboard", status |-> 500,
                                 body |-> "server_error", cookie |-> cookie,
                                 rebuilt |-> read.rebuilt]
                   ELSE resp' = [route |-> "pro_dashboard", status |-> 200,
                                 body |-> "pro_dashboard", cookie |-> cookie,
                                 rebuilt |-> read.rebuilt,
                                 lessons |->
                                    LET pro == SelectSeq(read.value.list,
                                                LAMBDA e : "pro" \in Range(e.tags))
                                    IN  [i \in DOMAIN pro |-> pro[i].slug]]
    /\ UNCHANGED <<PRO_USERS, proFile, claims, sessions, checkouts, progress,
                   content, files, stale, inflight>>

-----------------------------------------------------------------------------
\* The application: requests are handled one at a time

Next ==
    \/ \E token \in IdTokens : session_login(token)
    \/ \E cookie \in AllCookies, slug \in FirstSlugs(3) : lesson(cookie, slug)
    \/ \E cookie \in AllCookies : get_progress(cookie)
    \/ \E cookie \in AllCookies, data \in MainBodies : update_progress(cookie, data)
    \/ \E uid \in Users : admin_register_pro(uid)
    \/ \E cookie \in AllCookies, created \in BOOLEAN :
          create_checkout_session(cookie, created)
    \/ \E id \in 1..MaxCheckouts : Pay(id)
    \/ \E cookie \in AllCookies, session_id \in 0..(MaxCheckouts + 1) :
          payment_success(cookie, session_id)
    \/ \E event \in Events : stripe_webhook(event)

Spec == Init /\ [][Next]_vars

-----------------------------------------------------------------------------
\* The progress store on its own: two signed-in users, a content root of up
\* to MaxTotal lessons and a progress file of up to MaxDone completed slugs

InitProgress ==
    /\ proFile = NoFile
    /\ PRO_USERS = _load_pro_users(NoFile)
    /\ claims = [u \in Users |-> NoClaims]
    /\ sessions = [kind : {"session"}, uid : Users, customClaims : {NoClaims}]
    /\ checkouts = << >>
    /\ \E n \in 0..MaxDone :
          progress = [u \in Users |->
                        IF u = "u1" /\ n > 0
                        THEN [exists |-> TRUE,
                              data |-> {<<"completed", Sorted(FirstSlugs(n))>>}]
                        ELSE NoFile]
    /\ LESSON_INDEX = None
    /\ \E t \in 0..MaxTotal :
          /\ content = FirstSlugs(t)
          /\ files = LessonFiles(FirstSlugs(t))
    /\ stale = {}
    /\ inflight = {}
    /\ resp = NoResp

NextProgress ==
    \/ \E cookie \in AllCookies : get_progress(cookie)
    \/ \E cookie \in AllCookies, data \in Bodies : update_progress(cookie, data)

SpecProgress == InitProgress /\ [][NextProgress]_vars

-----------------------------------------------------------------------------
\* The lesson page on its own: one lesson file whose blocks are drawn from
\* the block kinds below, and visitors who request it

MaxHeadings == 3
MaxBlocks == 3
MaxEmbeds == 2

\* the sequences over S of length up to n
SeqsUpTo(S, n) == UNION {[1..k -> S] : k \in 0..n}

HeadingBlock(text) == [type |-> "heading", level |-> 0, text |-> text]

HeadingBlocks == {HeadingBlock(t) : t \in {"a", "A", "a-2", "", "h2", "<b>a</b>"}}

QuizBlock(type, choices, correctIndex) ==
    [type |-> type, question |-> "q", choices |-> choices,
     correctIndex |-> correctIndex]

QuizBlocks ==
    {QuizBlock("Quiz", JList(<<"x", "y">>), JInt(1)),
     QuizBlock("quiz", JList(<< >>), JInt(0)),
     QuizBlock("quiz", JList(<<"x", "y">>), None),
     QuizBlock("quiz", JStr("x"), JInt(0)),
     QuizBlock("quiz", None, JInt(0))}

\* a paragraph, a block of an unknown kind and a member that is not a dict
OtherBlocks ==
    {[type |-> "paragraph", text |-> "p"], [type |-> "widget"], JStr("x")}

EmbedUrls ==
    {"", "https://youtu.be/dQw4w9WgXcQ",
     "https://www.youtube.com/watch?v=dQw4w9WgXcQ&t=1",
     "https://youtu.be/abc", "https://example.com/v",
     "https://youtu.be/\"><iframe src=\"https://evil.example/\">",
     "https://example.com/\"><iframe src=\"https://evil.example/\">"}

EmbedBlocks == {[type |-> "embed", url |-> u] : u \in EmbedUrls}

\* the block lists of the lesson file
BlockLists ==
    SeqsUpTo(HeadingBlocks, MaxHeadings)
        \cup SeqsUpTo(QuizBlocks \cup OtherBlocks \cup {HeadingBlock("a")}, MaxBlocks)
        \cup SeqsUpTo(EmbedBlocks \cup {HeadingBlock("a")}, MaxEmbeds)

InitRender ==
    /\ proFile = NoFile
    /\ PRO_USERS = _load_pro_users(NoFile)
    /\ claims = [u \in Users |-> NoClaims]
    /\ sessions = {}
    /\ checkouts = << >>
    /\ progress = [u \in Users |-> NoFile]
    /\ LESSON_INDEX = None
    /\ content = {SlugA}
    /\ \E blocks \in BlockLists :
          files = [s \in {SlugA} |-> Lesson("a", "", JList(<<"css">>), blocks)]
    /\ stale = {}
    /\ inflight = {}
    /\ resp = NoResp

NextRender ==
    \E cookie \in AllCookies, slug \in FirstSlugs(1) : lesson(cookie, slug)

SpecRender == InitRender /\ [][NextRender]_vars

-----------------------------------------------------------------------------
\* The content index on its own: a content root of up to MaxFiles files, each
\* a lesson document, a file that does not parse, or a JSON array; a signed-in
\* user without claims and one with the Pro claim

MaxFiles == 2

DocAlpha ==
    Lesson("Alpha", "a css intro", JList(<<"css", "CSS3">>), <<HeadingBlock("a")>>)

DocPro ==
    Lesson("", "", JList(<<"pro">>),
           <<[type |-> "paragraph", text |-> "alpha css"],
             QuizBlock("quiz", JStr("x"), JInt(0))>>)

DocBare == Lesson("pro", "Pro", JStr("css"), << >>)

IndexFiles == {DocAlpha, DocPro, DocBare, Unparsable, NotAnObject}

IndexSessions ==
    {[kind |-> "session", uid |-> "u1", customClaims |-> NoClaims],
     [kind |-> "session", uid |-> "u2", customClaims |-> ProClaims]}

InitIndex ==
    /\ proFile = NoFile
    /\ PRO_USERS = _load_pro_users(NoFile)
    /\ claims = [u \in Users |-> IF u = "u2" THEN ProClaims ELSE NoClaims]
    /\ sessions = IndexSessions
    /\ checkouts = << >>
    /\ progress = [u \in Users |-> NoFile]
    /\ LESSON_INDEX = None
    /\ \E n \in 0..MaxFiles :
          /\ content = FirstSlugs(n)
          /\ files \in [FirstSlugs(n) -> IndexFiles]
    /\ stale = {}
    /\ inflight = {}
    /\ resp = NoResp

NextIndex ==
    \/ index
    \/ \E cookie \in AllCookies : dashboard(cookie)
    \/ \E query \in Queries : search(query)
    \/ \E cookie \in AllCookies : pro_dashboard(cookie)
    \/ \E cookie \in AllCookies, slug \in FirstSlugs(MaxFiles) : lesson(cookie, slug)
    \/ admin_register_pro("u1")

SpecIndex == InitIndex /\ [][NextIndex]_vars

-----------------------------------------------------------------------------
\* Sessions that go stale: u1 is signed in, and the identity provider may let
\* the cookie expire or revoke the user's sessions at any time

\* the session cookie passes its lifetime
Expire(cookie) ==
    /\ cookie \in sessions
    /\ <<cookie, "expired">> \notin stale
    /\ stale' = stale \cup {<<cookie, "expired">>}
    /\ resp' = NoResp
    /\ UNCHANGED <<PRO_USERS, proFile, claims, sessions, checkouts, progress,
                   LESSON_INDEX, content, files, inflight>>

\* the refresh tokens of uid are revoked: check_revoked=True then rejects
\* every cookie issued to uid
Revoke(uid) ==
    /\ \E c \in sessions : c.uid = uid /\ <<c, "revoked">> \notin stale
    /\ stale' = stale \cup {<<c, "revoked">> : c \in {x \in sessions : x.uid = uid}}
    /\ resp' = NoResp
    /\ UNCHANGED <<PRO_USERS, proFile, claims, sessions, checkouts, progress,
                   LESSON_INDEX, content, files, inflight>>

InitSession ==
    /\ proFile = NoFile
    /\ PRO_USERS = _load_pro_users(NoFile)
    /\ claims = [u \in Users |-> NoClaims]
    /\ sessions = {[kind |-> "session", uid |-> "u1", customClaims |-> NoClaims]}
    /\ checkouts = << >>
    /\ progress = [u \in Users |-> NoFile]
    /\ LESSON_INDEX = None
    /\ content = ContentRoot
    /\ files = LessonFiles(ContentRoot)
    /\ stale = {}
    /\ inflight = {}
    /\ resp = NoResp

NextSession ==
    \/ \E cookie \in SessionCookies : Expire(cookie)
    \/ \E uid \in Users : Revoke(uid)
    \/ \E cookie \in AllCookies : dashboard(cookie)
    \/ \E cookie \in AllCookies : get_progress(cookie)
    \/ \E cookie \in AllCookies, data \in MainBodies : update_progress(cookie, data)
    \/ \E cookie \in AllCookies : pro_dashboard(cookie)
    \/ \E cookie \in AllCookies, created \in BOOLEAN :
          create_checkout_session(cookie, created)
    \/ \E id \in 1..MaxCheckouts : Pay(id)
    \/ \E cookie \in AllCookies, session_id \in 0..(MaxCheckouts + 1) :
          payment_success(cookie, session_id)

SpecSession == InitSession /\ [][NextSession]_vars

-----------------------------------------------------------------------------
\* Concurrent progress updates: the development server handles every request
\* in a thread of its own, and update_progress holds no lock between
\* _load_progress and _save_progress. A request is in flight from its load
\* to its return; inflight keeps the returned ones with their answers.

MaxRequests == 2

RaceBodies ==
    {NoBody} \cup [hasSlug : {TRUE}, slug : {SlugA, SlugB}, completed : {"true", "false"}]

\* the ids of the requests that have loaded or returned
Started == {r.id : r \in inflight}

\* update_progress up to the return of _load_progress
update_progress_load(id, cookie, data) ==
    /\ id \notin Started
    /\ cookie \in Cookies
    /\ LET user == verify_session_cookie(cookie)
       IN  IF user = None
           THEN /\ resp' = LoginRedirect("update_progress", cookie)
                /\ UNCHANGED inflight
           ELSE IF MissingSlug(SlugOf(data))
           THEN /\ resp' = [route |-> "update_progress", status |-> 400,
                            body |-> "Missing slug", cookie |-> cookie,
                            data |-> data]
                /\ UNCHANGED inflight
           ELSE /\ inflight' = inflight \cup
                        {[id |-> id, pc |-> "loaded", cookie |-> cookie,
                          uid |-> user.uid, data |-> data,
                          prog |-> _load_progress(user.uid)]}
                /\ resp' = NoResp
    /\ UNCHANGED <<PRO_USERS, proFile, claims, sessions, checkouts, progress,
                   LESSON_INDEX, content, files, stale>>

\* a save that reads the file again and updates what it finds there
SaveBase_Reload(r) == _load_progress(r.uid)

\* the dict the request updates and saves: the one its own load returned
SaveBase(r) == r.prog

\* update_progress from the update of the loaded dict to the return
update_progress_save(id) ==
    /\ \E r \in inflight :
          /\ r.id = id
          /\ r.pc = "loaded"
          /\ LET comp == UpdatedSet(CompletedOf(SaveBase(r)), SlugOf(r.data),
                                    DoneOf(r.data))
                 saved == DictSet(SaveBase(r), "completed", Sorted(comp))
             IN  /\ progress' = [progress EXCEPT ![r.uid] =
                                     [exists |-> TRUE, data |-> saved]]
                 /\ resp' = Summary("update_progress", r.cookie, r.data, comp)
                 /\ inflight' = (inflight \ {r}) \cup
                        {[id |-> r.id, pc |-> "returned", cookie |-> r.cookie,
                          uid |-> r.uid, data |-> r.data, prog |-> r.prog]}
    /\ UNCHANGED <<PRO_USERS, proFile, claims, sessions, checkouts,
                   LESSON_INDEX, content, files, stale>>

InitRace ==
    /\ proFile = NoFile
    /\ PRO_USERS = _load_pro_users(NoFile)
    /\ claims = [u \in Users |-> NoClaims]
    /\ sessions = [kind : {"session"}, uid : Users, customClaims : {NoClaims}]
    /\ checkouts = << >>
    /\ progress = [u \in Users |-> NoFile]
    /\ LESSON_INDEX = None
    /\ content = ContentRoot
    /\ files = LessonFiles(ContentRoot)
    /\ stale = {}
    /\ inflight = {}
    /\ resp = NoResp

NextRace ==
    \/ \E id \in 1..MaxRequests, cookie \in AllCookies, data \in RaceBodies :
          update_progress_load(id, cookie, data)
    \/ \E id \in 1..MaxRequests : update_progress_save(id)
    \/ \E cookie \in AllCookies : get_progress(cookie)

SpecRace == InitRace /\ [][NextRace]_vars

-----------------------------------------------------------------------------
\* Registrations step by step: register_pro_user adds the uid to the shared
\* set, then _save_pro_users opens the file for writing (which empties it),
\* dumps the set into the buffer of its handle and flushes the buffer on
\* leaving the with block.  The directory creation, the open and the flush
\* may raise (a data directory that cannot be written, a full disk); requests
\* run in threads of their own and nothing is locked.

MaxRegistrations == 2

\* a file that exists and holds no JSON document: just opened for writing,
\* or left with the rest of a longer document behind a shorter one
TornFile(size) == [exists |-> TRUE, torn |-> TRUE, size |-> size]

\* the length of a pro_users document of n ids, in units of one id, the
\* brackets counting as one
DocSize(n) == n + 1

\* the length of the file
FileSize(file) ==
    IF ~file.exists THEN 0
    ELSE IF "torn" \in DOMAIN file THEN file.size
    ELSE DocSize(Len(file.pro_users))

\* the flush of a handle that was opened at offset 0: the document takes the
\* place of the first bytes of the file, and what another handle wrote
\* beyond its end stays
Flush(file, buf) ==
    IF FileSize(file) <= DocSize(Len(buf))
    THEN [exists |-> TRUE, pro_users |-> buf]
    ELSE TornFile(FileSize(file))

RegisterRoutes == {"admin_register_pro", "payment_success"}

\* the registrations that have not returned yet
Registering == {r \in inflight : r.pc \in {"added", "opened", "dumped"}}

\* the answer to a registration whose save raised: nothing catches it in
\* admin_register_pro; the outer except of payment_success redirects
SaveFailed(r) ==
    IF r.route = "admin_register_pro"
    THEN [route |-> r.route, status |-> 500, body |-> "server_error",
          cookie |-> NoCookie, uid |-> r.uid]
    ELSE PaymentResp(r.cookie, r.session_id, 302, "pricing", "skipped")

\* the request r at its next position
At(r, pc, buf) ==
    [id |-> r.id, route |-> r.route, cookie |-> r.cookie, uid |-> r.uid,
     session_id |-> r.session_id, pc |-> pc, buf |-> buf]

\* a request reaches register_pro_user and PRO_USERS.add(uid) is done
register_add(id, route, cookie, uid, session_id) ==
    /\ id \notin Started
    /\ IF route = "admin_register_pro"
       THEN cookie = NoCookie /\ session_id = 0
       ELSE /\ cookie \in Cookies
            /\ verify_session_cookie(cookie) # None
            /\ verify_session_cookie(cookie).uid = uid
            /\ session_id # 0
            /\ IsPaid(Retrieve(session_id))
    /\ PRO_USERS' = PRO_USERS \cup {uid}
    /\ inflight' = inflight \cup
            {[id |-> id, route |-> route, cookie |-> cookie, uid |-> uid,
              session_id |-> session_id, pc |-> "added", buf |-> << >>]}
    /\ resp' = NoResp
    /\ UNCHANGED <<proFile, claims, sessions, checkouts, progress,
                   LESSON_INDEX, content, files, stale>>

\* os.makedirs and open(pro_users_file, 'w'): the file is emptied, or one of
\* the two raises and the file is as it was
register_open(id, ok) ==
    /\ \E r \in inflight :
          /\ r.id = id
          /\ r.pc = "added"
          /\ IF ok
             THEN /\ proFile' = TornFile(0)
                  /\ inflight' = (inflight \ {r}) \cup {At(r, "opened", << >>)}
                  /\ resp' = NoResp
             ELSE /\ UNCHANGED proFile
                  /\ inflight' = (inflight \ {r}) \cup {At(r, "failed", << >>)}
                  /\ resp' = SaveFailed(r)
    /\ UNCHANGED <<PRO_USERS, claims, sessions, checkouts, progress,
                   LESSON_INDEX, content, files, stale>>

\* json.dump({'pro_users': list(pro_users)}, f): the shared set as it is now
\* goes into the buffer of the handle
register_dump(id) ==
    /\ \E r \in inflight :
          /\ r.id = id
          /\ r.pc = "opened"
          /\ inflight' = (inflight \ {r}) \cup {At(r, "dumped", ListOfSet(PRO_USERS))}
    /\ resp' = NoResp
    /\ UNCHANGED <<PRO_USERS, proFile, claims, sessions, checkouts, progress,
                   LESSON_INDEX, content, files, stale>>

\* the end of the with block and the rest of the handler: the buffer is
\* flushed and the request is answered (payment_success also sets the claims,
\* ignoring a failure), or the flush raises and the file stays as it is
register_close(id, ok, mirrored) ==
    /\ \E r \in inflight :
          /\ r.id = id
          /\ r.pc = "dumped"
          /\ IF ~ok
             THEN /\ UNCHANGED <<proFile, claims>>
                  /\ inflight' = (inflight \ {r}) \cup {At(r, "failed", r.buf)}
                  /\ resp' = SaveFailed(r)
             ELSE /\ proFile' = Flush(proFile, r.buf)
                  /\ inflight' = (inflight \ {r}) \cup {At(r, "returned", r.buf)}
                  /\ IF r.route = "admin_register_pro"
                     THEN /\ UNCHANGED claims
                          /\ resp' = [route |-> r.route, status |-> 200,
                                      body |-> "User registered as Pro",
                                      cookie |-> NoCookie, uid |-> r.uid]
                     ELSE /\ claims' = IF mirrored
                                       THEN [claims EXCEPT ![r.uid] = ProClaims]
                                       ELSE claims
                          /\ resp' = PaymentResp(r.cookie, r.session_id, 200,
                                                 "payment_success",
                                                 IF mirrored THEN "set" ELSE "failed")
    /\ UNCHANGED <<PRO_USERS, sessions, checkouts, progress,
                   LESSON_INDEX, content, files, stale>>

\* u1 is signed in and has paid checkout 1
InitRegister ==
    /\ proFile = NoFile
    /\ PRO_USERS = _load_pro_users(NoFile)
    /\ claims = [u \in Users |-> NoClaims]
    /\ sessions = {[kind |-> "session", uid |-> "u1", customClaims |-> NoClaims]}
    /\ checkouts = <<[user_id |-> "u1", payment_status |-> "paid"]>>
    /\ progress = [u \in Users |-> NoFile]
    /\ LESSON_INDEX = None
    /\ content = ContentRoot
    /\ files = LessonFiles(ContentRoot)
    /\ stale = {}
    /\ inflight = {}
    /\ resp = NoResp

NextRegister ==
    \/ \E id \in 1..MaxRegistrations, route \in RegisterRoutes,
          cookie \in AllCookies, uid \in Users, session_id \in 0..1 :
          register_add(id, route, cookie, uid, session_id)
    \/ \E id \in 1..MaxRegistrations, ok \in BOOLEAN : register_open(id, ok)
    \/ \E id \in 1..MaxRegistrations : register_dump(id)
    \/ \E id \in 1..MaxRegistrations, ok \in BOOLEAN, mirrored \in BOOLEAN :
          register_close(id, ok, mirrored)

SpecRegister == InitRegister /\ [][NextRegister]_vars

-----------------------------------------------------------------------------
\* Properties of the entitlement flow (checked under Spec)

\* the user of the last request, None when its cookie does not verify
RespUser == verify_session_cookie(resp.cookie)

\* every value has_pro_access may be given
UserValues == {None} \cup [uid : Users, customClaims : ClaimDicts]

\* C1: a lesson tagged "pro" is rendered only for a request whose session
\* verifies and has Pro access; every other request for it is redirected to
\* /pricing and gets no rendered content.
C1_ProLessonGated ==
    (resp.route = "lesson" /\ resp.slug \in content /\ IsProLesson(resp.slug)) =>
        LET entitled == RespUser # None /\ has_pro_access(RespUser)
        IN  /\ resp.body = "lesson" => entitled
            /\ ~entitled => (resp.status = 302 /\ resp.body = "pricing")

\* a signed-in user without entitlement was redirected from the Pro lesson
C1_Witness ==
    /\ resp.route = "lesson" /\ resp.slug = SlugA
    /\ RespUser # None
    /\ resp.status = 302 /\ resp.body = "pricing"

\* C2: has_pro_access(user) is true exactly when the user's id is in the Pro
\* Registration Set or the user's custom claims carry pro: true, and it is
\* false for an absent user.
C2_HasProAccessIff ==
    \A user \in UserValues :
        has_pro_access(user) =
            (/\ user # None
             /\ \/ user.uid \in PRO_USERS
                \/ <<"pro", TRUE>> \in user.customClaims)

\* a registered user whose session carries no Pro claim was served the Pro lesson
C2_Witness ==
    /\ resp.route = "lesson" /\ resp.slug = SlugA /\ resp.status = 200
    /\ RespUser # None
    /\ RespUser.uid \in PRO_USERS
    /\ RespUser.customClaims = NoClaims

\* C3: a user id is in the Pro Registration Set only if a checkout session
\* was created for that same user and that session is paid.
C3_RegisteredOnlyAfterOwnPaidCheckout ==
    \A u \in PRO_USERS :
        \E i \in DOMAIN checkouts :
            /\ checkouts[i].user_id = u
            /\ checkouts[i].payment_status = "paid"

\* C4: confirm_payment registers the requesting user when the retrieved
\* transaction is paid; for any other status, a missing session id or a
\* failed retrieval it redirects to pricing and leaves the registration set,
\* its file and the provider claims unchanged.
C4_ConfirmRegistersOnlyWhenPaid ==
    [][(resp'.route = "payment_success" /\ verify_session_cookie(resp'.cookie) # None) =>
          IF resp'.session_id # 0 /\ Retrieve(resp'.session_id) = "paid"
          THEN verify_session_cookie(resp'.cookie).uid \in PRO_USERS'
          ELSE /\ resp'.status = 302 /\ resp'.body = "pricing"
               /\ UNCHANGED <<PRO_USERS, proFile, claims>>]_vars

\* an unpaid session was confirmed by a signed-in user, who stays unregistered
C4_Witness ==
    /\ resp.route = "payment_success" /\ RespUser # None
    /\ resp.session_id \in DOMAIN checkouts
    /\ checkouts[resp.session_id].payment_status = "unpaid"
    /\ resp.body = "pricing"
    /\ RespUser.uid \notin PRO_USERS

\* has_pro_access for a session of u that carries no Pro claim
AccessWithoutClaims(u) == has_pro_access([uid |-> u, customClaims |-> NoClaims])

\* C5: when the claims update of a paid confirmation fails, the failure is
\* swallowed: the success response is returned, the user is registered, and
\* has_pro_access holds for the user, then and on every later request,
\* although the claims carry no pro: true.
C5_MirrorFailureSwallowed ==
    /\ [](  (resp.route = "payment_success" /\ RespUser # None
                /\ resp.mirror = "failed") =>
               /\ resp.status = 200 /\ resp.body = "payment_success"
               /\ RespUser.uid \in PRO_USERS
               /\ AccessWithoutClaims(RespUser.uid))
    /\ [][\A u \in Users : AccessWithoutClaims(u) => AccessWithoutClaims(u)']_vars

\* a confirmation whose claims update failed: registered, success page, no claims
C5_Witness ==
    /\ resp.route = "payment_success" /\ RespUser # None
    /\ resp.mirror = "failed" /\ resp.status = 200
    /\ claims[RespUser.uid] = NoClaims
    /\ RespUser.customClaims = NoClaims
    /\ has_pro_access(RespUser)

\* the uid the last request registered, "" when it registered none
Registered(r) ==
    IF r.route = "admin_register_pro" THEN r.uid
    ELSE IF r.route = "payment_success" /\ r.status = 200
         THEN r.cookie.uid
         ELSE ""

\* C6: registering an already-registered user id leaves the in-memory set and
\* the persisted pro_users list as they were, a list without duplicates
\* holding exactly the ids of the set.
C6_RegisterIdempotent ==
    [][Registered(resp') \in PRO_USERS =>
          /\ PRO_USERS' = PRO_USERS
          /\ proFile' = proFile
          /\ Len(proFile'.pro_users) = Cardinality(PRO_USERS')
          /\ Range(proFile'.pro_users) = PRO_USERS']_vars

\* a registered user with a checkout was registered again by the admin route
C6_Witness ==
    /\ resp.route = "admin_register_pro"
    /\ resp.found
    /\ Cardinality(PRO_USERS) = 2
    /\ \E i \in DOMAIN checkouts : checkouts[i].user_id = resp.uid

\* C7: the webhook rejects an invalid payload or signature with 400 and
\* changes no claims; a verified checkout.session.completed event carrying
\* user_id U sets U's claims to {pro: true} and is answered 200 "Success"; a
\* verified event of another type changes no claims.
C7_WebhookAsClaimed ==
    [][resp'.route = "stripe_webhook" =>
          LET e == resp'.event
          IN  /\ e.sig # "verified" => (resp'.status = 400 /\ claims' = claims)
              /\ (e.sig = "verified" /\ e.type = "checkout.session.completed"
                    /\ e.user_id # "") =>
                    /\ claims' = [claims EXCEPT ![e.user_id] = ProClaims]
                    /\ resp'.status = 200 /\ resp'.body = "Success"
              /\ (e.sig = "verified" /\ e.type # "checkout.session.completed") =>
                    (claims' = claims /\ resp'.status = 200)]_vars

\* C7 (amended): as C7, except that the verified checkout.session.completed
\* event sets the claims and is answered 200 "Success" only when the provider
\* accepts the update; when the provider call raises, the handler does not
\* catch it: the answer is a 500 and no claims change.
C7_WebhookVerifiedOnly ==
    [][resp'.route = "stripe_webhook" =>
          LET e == resp'.event
          IN  /\ e.sig # "verified" => (resp'.status = 400 /\ claims' = claims)
              /\ (e.sig = "verified" /\ e.type = "checkout.session.completed"
                    /\ e.user_id # "") =>
                    \/ /\ claims' = [claims EXCEPT ![e.user_id] = ProClaims]
                       /\ resp'.status = 200 /\ resp'.body = "Success"
                    \/ /\ claims' = claims
                       /\ resp'.status = 500
              /\ (e.sig = "verified" /\ e.type # "checkout.session.completed") =>
                    (claims' = claims /\ resp'.status = 200)]_vars

\* a verified completed event granted the claims to a user who is not registered
C7_Witness ==
    /\ resp.route = "stripe_webhook" /\ resp.status = 200
    /\ resp.event.sig = "verified"
    /\ resp.event.type = "checkout.session.completed"
    /\ resp.event.user_id \in Users
    /\ claims[resp.event.user_id] = ProClaims
    /\ resp.event.user_id \notin PRO_USERS

-----------------------------------------------------------------------------
\* Properties of the progress store (checked under SpecProgress)

\* the completed set persisted for uid in the progress files p
Persisted(p, uid) ==
    IF p[uid].exists THEN Range(DictGet(p[uid].data, "completed", << >>)) ELSE {}

\* C8: an authenticated POST /api/progress whose slug is missing or empty is
\* answered 400 "Missing slug" and leaves every progress file as it was.
C8_MissingSlugRejected ==
    [][(/\ resp'.route = "update_progress"
        /\ verify_session_cookie(resp'.cookie) # None
        /\ (~resp'.data.hasSlug \/ resp'.data.slug = << >>)) =>
          /\ resp'.status = 400 /\ resp'.body = "Missing slug"
          /\ progress' = progress]_vars

\* a user with completed lessons posted an empty slug
C8_Witness ==
    /\ resp.route = "update_progress" /\ RespUser # None
    /\ resp.status = 400
    /\ resp.data.hasSlug /\ resp.data.slug = << >>
    /\ Persisted(progress, RespUser.uid) # {}

\* what C9 says of one update step, about the slug `key` of a request that
\* satisfies `applies`
C9_Step(key, applies) ==
    (/\ resp'.route = "update_progress"
     /\ verify_session_cookie(resp'.cookie) # None
     /\ applies) =>
        LET uid == verify_session_cookie(resp'.cookie).uid
        IN  /\ resp'.status = 200
            /\ DoneOf(resp'.data) => key \in Persisted(progress', uid)
            /\ ~DoneOf(resp'.data) => key \notin Persisted(progress', uid)
            /\ Persisted(progress', uid) \ {key} = Persisted(progress, uid) \ {key}
            /\ \A other \in Users \ {uid} : progress'[other] = progress[other]
            /\ resp'.completed = Persisted(progress', uid)
            /\ (resp.route = "update_progress" /\ resp.status = 200
                    /\ resp.cookie = resp'.cookie /\ resp.data = resp'.data) =>
                  (progress' = progress /\ resp' = resp)

\* C9: for any non-empty slug, update(uid, slug, true) leaves the slug in the
\* persisted completed set and update(uid, slug, false) leaves it out, every
\* other slug is unchanged, and the same update applied twice in a row gives
\* the same persisted set and summary as applied once.
C9_UpdateAsClaimed ==
    [][C9_Step(resp'.data.slug,
               resp'.data.hasSlug /\ resp'.data.slug # << >>)]_vars

\* C9 (amended): the same, for any slug that is non-empty once surrounding
\* whitespace is stripped, and about the stripped slug, which is the one the
\* handler stores; a slug of whitespace only is rejected like an empty one.
C9_UpdateIdempotent ==
    [][C9_Step(SlugOf(resp'.data), SlugOf(resp'.data) # << >>)]_vars

\* a padded slug was posted as completed and its stripped form is persisted
C9_Witness ==
    /\ resp.route = "update_progress" /\ resp.status = 200 /\ RespUser # None
    /\ resp.data.slug # SlugOf(resp.data)
    /\ SlugOf(resp.data) \in Persisted(progress, RespUser.uid)
    /\ Cardinality(Persisted(progress, RespUser.uid)) >= 2

Abs(x) == IF x < 0 THEN -x ELSE x

\* C10: the percentage of a progress summary is 100 * completed / total
\* rounded to the nearest integer when there are lessons (3 of 10 gives 30),
\* and 0 when there are none.
C10_PercentRounded ==
    (resp.route \in {"get_progress", "update_progress"} /\ resp.status = 200) =>
        LET n == Cardinality(resp.completed)
        IN  /\ resp.total = Cardinality(content)
            /\ resp.completed = Persisted(progress, RespUser.uid)
            /\ resp.total > 0 =>
                  2 * Abs(resp.total * resp.percent - 100 * n) <= resp.total
            /\ resp.total = 0 => resp.percent = 0
            /\ (n = 3 /\ resp.total = 10) => resp.percent = 30

\* 3 completed lessons of 10 are reported as 30
C10_Witness ==
    /\ resp.route = "get_progress" /\ resp.status = 200
    /\ Cardinality(resp.completed) = 3 /\ resp.total = 10
    /\ resp.percent = 30

\* C22: the summary of the progress get and update operations has a
\* percentage between 0 and 100 and a completed count no greater than the
\* number of known lessons, whatever slugs the updates named.
C22_SummaryWithinTotal ==
    (resp.route \in {"get_progress", "update_progress"} /\ resp.status = 200) =>
        /\ resp.percent \in 0..100
        /\ Cardinality(resp.completed) <= resp.total

-----------------------------------------------------------------------------
\* Properties of the lesson page (checked under SpecRender)

\* the last request rendered a lesson
Rendered == resp.route = "lesson" /\ resp.status = 200

\* the blocks of the lesson the last request asked for
RespBlocks == files[resp.slug].blocks

\* s without its k-th member
RemoveAt(s, k) == SubSeq(s, 1, k - 1) \o SubSeq(s, k + 1, Len(s))

IsQuiz(b) == IsDict(b) /\ TypeIs(b, "quiz")

\* C11: a quiz block whose choice list is empty or whose correct index is
\* missing emits no fragment and takes no quiz-N id: the page is the one
\* rendered from the same blocks without it, so every block before and after
\* it renders as it does without the quiz, in order.
C11_BadQuizEmitsNothing ==
    Rendered =>
        \A k \in DOMAIN RespBlocks :
            (/\ IsQuiz(RespBlocks[k])
             /\ \/ RespBlocks[k].choices = JList(<< >>)
                \/ RespBlocks[k].correctIndex = None) =>
                /\ resp.parts = render_blocks(RemoveAt(RespBlocks, k)).parts
                /\ resp.toc = render_blocks(RemoveAt(RespBlocks, k)).toc

IsHeading(b) == IsDict(b) /\ TypeIs(b, "heading")

\* the heading blocks of the lesson, in order: the n-th has the n-th entry of
\* the table of contents
RespHeadings == SelectSeq(RespBlocks, IsHeading)

\* i and j are the first two headings of the page with the text they share
FirstTwoAlike(i, j) ==
    /\ i < j
    /\ RespHeadings[i].text = RespHeadings[j].text
    /\ \A n \in 1..(j - 1) :
          RespHeadings[n].text = RespHeadings[i].text => n = i

IdsBefore(j) == {resp.toc[n].id : n \in 1..(j - 1)}

C13_AnchorIdsDistinct ==
    Rendered =>
        /\ Len(resp.toc) = Len(RespHeadings)
        /\ \A m \in DOMAIN resp.toc : resp.toc[m].id # << >>
        /\ \A m, n \in DOMAIN resp.toc :
              m # n => resp.toc[m].id # resp.toc[n].id
        /\ SelectSeq(resp.parts, LAMBDA p : p.kind = "heading")
              = [n \in DOMAIN resp.toc |->
                    [kind |-> "heading", level |-> resp.toc[n].level,
                     id |-> resp.toc[n].id, text |-> resp.toc[n].text]]

\* the headings "a", "a", "a-2" got the ids a, a-2 and a-2-2
C13_Witness ==
    /\ Rendered
    /\ [n \in DOMAIN RespHeadings |-> RespHeadings[n].text] = <<"a", "a", "a-2">>
    /\ [n \in DOMAIN resp.toc |-> resp.toc[n].id]
          = <<Chars("a"), Chars("a-2"), Chars("a-2") \o Chars("-2")>>

\* how one character moves an HTML tokenizer between text, the inside of a
\* tag and the inside of a quoted attribute value
CtxStep(ctx, c) ==
    IF ctx = "text" THEN (IF c = Ch("<") THEN "tag" ELSE "text")
    ELSE IF ctx = "tag"
         THEN (IF c = Ch("\"") THEN "attr" ELSE IF c = Ch(">") THEN "text" ELSE "tag")
         ELSE (IF c = Ch("\"") THEN "tag" ELSE "attr")

\* where the tokenizer is after s[lo..hi], having been in ctx before it
RECURSIVE CtxAfter(_, _, _, _)
CtxAfter(s, lo, hi, ctx) ==
    IF lo > hi THEN ctx
    ELSE IF lo = hi THEN CtxStep(ctx, s[lo])
    ELSE LET mid == (lo + hi) \div 2
             left == CtxAfter(s, lo, mid, ctx)
         IN  IF left = "text" THEN CtxAfter(s, mid + 1, hi, "text")
             ELSE IF left = "tag" THEN CtxAfter(s, mid + 1, hi, "tag")
             ELSE CtxAfter(s, mid + 1, hi, "attr")

\* the positions of html at which an iframe element opens
IframesIn(html) ==
    {p \in 1..Len(html) :
        /\ StartsAt(html, p, Chars("<iframe"))
        /\ CtxAfter(html, 1, p - 1, "text") = "text"}

\* the src of the iframe element that opens at p, << >> when src is not its
\* first attribute
SrcAt(html, p) ==
    LET from == p + Len(Chars("<iframe src=\""))
        quotes == {q \in from..Len(html) : html[q] = Ch("\"")}
    IN  IF StartsAt(html, p, Chars("<iframe src=\"")) /\ quotes # {}
        THEN SubSeq(html, from, (CHOOSE q \in quotes : \A r \in quotes : q <= r) - 1)
        ELSE << >>

\* the url of an embed block as the renderer reads it
UrlOf(b) == Strip(Chars(b.url))

IsEmbed(b) == IsDict(b) /\ TypeIs(b, "embed")

\* the embed blocks of the lesson with a non-empty url, in order: the n-th
\* has the n-th embed fragment of the page
RespEmbeds == SelectSeq(RespBlocks, LAMBDA b : IsEmbed(b) /\ UrlOf(b) # << >>)

RespEmbedParts == SelectSeq(resp.parts, LAMBDA p : p.kind = "embed")

\* C16: an embed block yields an iframe only when its URL matches the
\* YouTube video-id pattern, and then the iframe's source is exactly
\* https://www.youtube.com/embed/<id>; for every other URL the fragment is a
\* plain link and holds no iframe element (an empty URL yields nothing),
\* whatever characters the URL contains.
C16_EmbedOnlyYouTubeIframe ==
    Rendered =>
        /\ Len(RespEmbedParts) = Len(RespEmbeds)
        /\ \A n \in DOMAIN RespEmbeds :
              LET url == UrlOf(RespEmbeds[n])
                  html == RespEmbedParts[n].html
              IN  IF youtube_id(url) # << >>
                  THEN {SrcAt(html, p) : p \in IframesIn(html)}
                          = {Chars("https://www.youtube.com/embed/") \o youtube_id(url)}
                  ELSE /\ IframesIn(html) = {}
                       /\ StartsAt(html, 1, Chars("<p><a href=\"") \o url \o Chars("\""))

-----------------------------------------------------------------------------
\* Properties of the content index (checked under SpecIndex)

\* the requests that read the index
IndexRoutes == {"index", "dashboard", "search", "pro_dashboard"}

\* the last request read the index and found no cached one
RespRebuilt ==
    /\ resp.route \in IndexRoutes
    /\ "rebuilt" \in DOMAIN resp
    /\ resp.rebuilt

\* the number of entries the cached index holds for slug
EntriesFor(slug) ==
    Cardinality({i \in DOMAIN LESSON_INDEX.list : LESSON_INDEX.list[i].slug = slug})

\* C14: a rebuild of the index never raises: whatever files the content root
\* holds, the request that rebuilt is answered, the index is in place, every
\* lesson document has exactly one entry under its slug, every other valid
\* JSON document has one entry or none, and every file that does not parse
\* has none.
C14_RebuildNeverRaises ==
    RespRebuilt =>
        /\ resp.status # 500
        /\ IsList(LESSON_INDEX)
        /\ \A slug \in content :
              CASE files[slug].shape = "object" -> EntriesFor(slug) = 1
                [] files[slug].shape = "array" -> EntriesFor(slug) \in {0, 1}
                [] OTHER -> EntriesFor(slug) = 0

\* the last request was a search that was answered
RespSearch == resp.route = "search" /\ resp.status = 200

\* text holds q somewhere, letter case aside
MatchesCI(text, q) ==
    \E i \in 1..(Len(text) + 1) :
        /\ i + Len(q) - 1 <= Len(text)
        /\ \A k \in 1..Len(q) : Lower(<<text[i + k - 1]>>) = Lower(<<q[k]>>)

\* the score of the claim for the index entry e and the query q
ClaimedScore(e, q) ==
    (IF MatchesCI(Chars(e.title), q) THEN 3 ELSE 0)
        + (IF MatchesCI(Chars(e.summary), q) THEN 2 ELSE 0)
        + (IF \E t \in Range(e.tags) : MatchesCI(Chars(t), q) THEN 2 ELSE 0)
        + (IF MatchesCI(e.text, q) THEN 1 ELSE 0)

\* the query of the last search without the blanks around it
RespQuery == Strip(Chars(resp.query))

\* C17: a search scores every index entry 3 for the title, 2 for the
\* summary, 2 for the tags (once, however many match) and 1 for the full
\* text, by case-insensitive substring match; its result holds exactly the
\* entries of positive score, each once and with that score, in
\* non-increasing score order; a blank query has no results.
C17_SearchScores ==
    RespSearch =>
        LET idx == LESSON_INDEX.list
            res == resp.results
        IN  IF RespQuery = << >> THEN res = << >>
            ELSE /\ \A i \in DOMAIN idx :
                      Cardinality({j \in DOMAIN res : res[j].slug = idx[i].slug})
                          = IF ClaimedScore(idx[i], RespQuery) > 0 THEN 1 ELSE 0
                 /\ \A j \in DOMAIN res : \E i \in DOMAIN idx :
                      /\ idx[i].slug = res[j].slug
                      /\ res[j].score = ClaimedScore(idx[i], RespQuery)
                 /\ \A j \in 1..(Len(res) - 1) : res[j].score >= res[j + 1].score

\* a search for "css" that ranks the second file above the first, the higher
\* one matching in its summary, in two of its tags and in its text
C17_Witness ==
    /\ RespSearch
    /\ resp.query = " css "
    /\ Len(resp.results) = 2
    /\ resp.results[1].slug = SlugB /\ resp.results[1].score = 5
    /\ resp.results[2].slug = SlugA /\ resp.results[2].score = 1

\* the last request was GET /pro by a signed-in user
RespPro == resp.route = "pro_dashboard" /\ RespUser # None

\* C18 as stated: the Pro dashboard consults the claims alone, so a signed-in
\* user who is registered as Pro but whose claims carry no pro: true is
\* redirected to pricing.
C18_ClaimsOnlyAsClaimed ==
    (RespPro /\ RespUser.uid \in PRO_USERS /\ ~pro_required(RespUser)) =>
        (resp.status = 302 /\ resp.body = "pricing")

\* C18: the Pro dashboard is guarded by has_pro_access: a signed-in user is
\* redirected to pricing exactly when the user is neither registered as Pro
\* nor carries the claim pro: true; the claims-only test of pro_required
\* guards no route.
C18_ProDashboardGuard ==
    RespPro =>
        IF has_pro_access(RespUser)
        THEN resp.body \in {"pro_dashboard", "server_error"}
        ELSE resp.status = 302 /\ resp.body = "pricing"

\* a registered user whose claims carry no pro: true is served the dashboard
C18_Witness ==
    /\ RespPro
    /\ RespUser.uid \in PRO_USERS
    /\ ~pro_required(RespUser)
    /\ resp.status = 200 /\ resp.body = "pro_dashboard"

\* the last request rendered a lesson page
RespRendered == resp.route = "lesson" /\ resp.status = 200

\* the last request read the index
RespRead == resp.route \in IndexRoutes /\ "rebuilt" \in DOMAIN resp

\* the lessons a lesson view can render
Viewable == {slug \in content : files[slug].shape = "object"}

\* C20: the index cache is invalidated by every lesson view and rebuilt
\* lazily: after a request that rendered a lesson the cache is unset; an
\* index read that finds it unset rebuilds it from the content root; an
\* index read that finds an index cached, where there is a lesson to view,
\* reuses it without a rebuild.
C20_CacheLifecycle ==
    [][ /\ RespRendered' => LESSON_INDEX' = None
        /\ (RespRead' /\ LESSON_INDEX = None) =>
              /\ RespRebuilt'
              /\ ~BuildRaises => LESSON_INDEX' = build_lesson_index
        /\ (RespRead' /\ LESSON_INDEX # None /\ Viewable # {}) =>
              /\ ~RespRebuilt'
              /\ LESSON_INDEX' = LESSON_INDEX ]_vars

\* the steps of C20 in turn: a lesson view has emptied the cache, the next
\* read has rebuilt it, and the read after that has reused it
C20_Witness ==
    /\ RespRead /\ ~RespRebuilt
    /\ LESSON_INDEX # None
    /\ Len(LESSON_INDEX.list) = 2

-----------------------------------------------------------------------------
\* Properties of the session guard (checked under SpecSession)

GuardedRoutes ==
    {"dashboard", "get_progress", "update_progress", "pro_dashboard",
     "create_checkout_session", "payment_success"}

\* the cookie is absent, malformed, expired or revoked
Unverifiable(cookie) ==
    \/ cookie \in {NoCookie, BadCookie}
    \/ \E why \in StaleReasons : <<cookie, why>> \in stale

\* C15: a request to a login-guarded route whose session cookie is absent,
\* malformed, expired or revoked is answered by a redirect to the login page
\* that carries the requested path; the handler does not run, and no
\* progress, registration, claims, checkout or index state changes.
C15_StaleSessionRedirected ==
    [][ (resp'.route \in GuardedRoutes /\ Unverifiable(resp'.cookie)) =>
            /\ resp' = [route |-> resp'.route, status |-> 302, body |-> "login",
                        cookie |-> resp'.cookie, next |-> RoutePath(resp'.route)]
            /\ UNCHANGED <<PRO_USERS, proFile, claims, sessions, checkouts,
                           progress, LESSON_INDEX, stale>> ]_vars

\* the user paid, the sessions were revoked, and the confirmation request
\* with the revoked cookie was sent to the login page: nobody is registered
C15_Witness ==
    /\ resp.route = "payment_success"
    /\ resp.cookie \in sessions
    /\ <<resp.cookie, "revoked">> \in stale
    /\ resp.status = 302 /\ resp.body = "login"
    /\ resp.next = "/payment/success"
    /\ \E id \in DOMAIN checkouts :
          /\ checkouts[id].payment_status = "paid"
          /\ checkouts[id].user_id = resp.cookie.uid
    /\ PRO_USERS = {}

-----------------------------------------------------------------------------
\* Properties of concurrent progress updates (checked under SpecRace)

\* the completed set in the progress file of uid
OnDisk(uid) == CompletedOf(_load_progress(uid))

\* request r has returned its summary
Returned(r) == r.pc = "returned"

\* C19: update_progress is an unlocked read-modify-write: the file a request
\* saves is the completed set of its own load with its slug added or removed,
\* whatever other requests have saved since that load; so two concurrent
\* requests that add different slugs can both succeed and leave a file that
\* lacks one of the slugs.
C19_SaveOverwritesFromOwnLoad ==
    [][ \A r \in inflight :
            (r.pc = "loaded" /\ (\E t \in inflight' : t.id = r.id /\ Returned(t))) =>
                /\ OnDisk(r.uid)' =
                        IF DoneOf(r.data)
                        THEN CompletedOf(r.prog) \cup {SlugOf(r.data)}
                        ELSE CompletedOf(r.prog) \ {SlugOf(r.data)}
                /\ resp'.status = 200 ]_vars

\* a lost update: two requests of one user that added different slugs have
\* both returned, and the file lacks the slug of one of them
C19_Witness ==
    \E r, t \in inflight :
        /\ Returned(r) /\ Returned(t)
        /\ r.uid = t.uid
        /\ DoneOf(r.data) /\ DoneOf(t.data)
        /\ SlugOf(r.data) # SlugOf(t.data)
        /\ resp.route = "update_progress" /\ resp.status = 200
        /\ SlugOf(r.data) \notin OnDisk(r.uid)
        /\ SlugOf(t.data) \in OnDisk(r.uid)

-----------------------------------------------------------------------------
\* Properties of the registration store (checked under SpecRegister)

\* the ids a reader of the file finds in it
PersistedIds ==
    IF proFile.exists /\ "pro_users" \in DOMAIN proFile
    THEN Range(proFile.pro_users)
    ELSE {}

\* C21: the Pro Registration Set only grows and its persisted copy tracks
\* it: whenever no registration is in progress, the pro_users list of the
\* file holds exactly the ids of the in-memory set that has_pro_access
\* consults, also after concurrent registrations and after a registration
\* whose file write failed.
C21_FileTracksSet ==
    Registering = {} =>
        /\ PersistedIds = PRO_USERS
        /\ PRO_USERS # {} => (proFile.exists /\ "pro_users" \in DOMAIN proFile)

====
